---- MODULE Spec2Model ----
(***************************************************************************)
(* Request dispatch core of rustnext: Route (template -> regex, matching), *)
(* Router (route selection, middleware chain) as state machines.           *)
(*                                                                         *)
(* Strings are sequences of one-character strings, so that the character   *)
(* scan of Route::path_to_regex and the regex match are computed.          *)
(***************************************************************************)
EXTENDS Integers, Sequences, FiniteSets, TLC

(* ----------------------------- bounds --------------------------------- *)
\* a template is a concatenation of at most MaxPieces pieces of Pieces
MaxPieces == 3
\* a candidate path has at most MaxPathLen characters
MaxPathLen == 4
\* routes / middleware registered on one Router
MaxRoutes == 2
MaxMiddleware == 2

(* ----------------------------- Option --------------------------------- *)
None == [some |-> FALSE]
Some(v) == [some |-> TRUE, v |-> v]

(* ------------------------ characters and strings ---------------------- *)
\* the characters of the model alphabet for which char::is_alphanumeric holds
AlnumChars ==
    {"a", "b", "c", "d", "e", "f", "i", "l", "r", "s", "t", "u", "x", "y", "2", "4"}

\* router.rs:53  next_ch.is_alphanumeric() || next_ch == '_'
IsParamNameChar(ch) == ch \in AlnumChars \/ ch = "_"

\* router.rs:65  the characters path_to_regex escapes with a backslash
EscapedChars == {".", "+", "?", "^", "$", "{", "}", "[", "]", "|", "(", ")", "\\"}

\* a parameter group that also accepts the empty segment
ParamGroupStar == <<"(", "[", "^", "/", "]", "*", ")">>

\* router.rs:60  regex_str.push_str("([^/]+)")
ParamGroup == <<"(", "[", "^", "/", "]", "+", ")">>

\* a wildcard group that stops at the next separator
StarGroupNoSlash == <<"(", "[", "^", "/", "]", "*", ")">>

\* router.rs:63  regex_str.push_str("(.*)")
StarGroup == <<"(", ".", "*", ")">>

(* ------------------------ Route::path_to_regex ------------------------ *)
RECURSIVE ScanParamName(_, _)
\* router.rs:52-58: the peek loop; the index of the first character at or
\* after i that is not a parameter-name character (Len+1 at the end)
ScanParamName(path, i) ==
    IF i <= Len(path) /\ IsParamNameChar(path[i])
    THEN ScanParamName(path, i + 1)
    ELSE i

\* the escape arm with the backslash left out
EscapeCharNoEscape(ch) == <<ch>>

\* router.rs:65-68: the escape arm
EscapeChar(ch) == <<"\\", ch>>

RECURSIVE PathToRegexLoop(_, _, _, _)
\* router.rs:48-71: while let Some(ch) = chars.next() { match ch { ... } }
PathToRegexLoop(path, i, regex_str, param_names) ==
    IF i > Len(path)
    THEN [regex_str |-> regex_str \o <<"$">>, param_names |-> param_names]
    ELSE LET ch == path[i] IN
         IF ch = ":"
         THEN LET j == ScanParamName(path, i + 1) IN
              PathToRegexLoop(path, j, regex_str \o ParamGroup,
                              Append(param_names, SubSeq(path, i + 1, j - 1)))
         ELSE IF ch = "*"
         THEN PathToRegexLoop(path, i + 1, regex_str \o StarGroup, param_names)
         ELSE IF ch \in EscapedChars
         THEN PathToRegexLoop(path, i + 1, regex_str \o EscapeChar(ch), param_names)
         ELSE PathToRegexLoop(path, i + 1, regex_str \o <<ch>>, param_names)

\* router.rs:41-75: (regex source, parameter names); the source is compiled
\* by RegexNew below
path_to_regex(path) == PathToRegexLoop(path, 1, <<"^">>, <<>>)

(* ------------------- regex::Regex::new / captures --------------------- *)
\* A compiled regex is a sequence of tokens:
\*   [k |-> "start"], [k |-> "end"]                       the anchors ^ and $
\*   [k |-> "rep", atom, c, min, max, cap]                an atom repeated
\*       atom "lit" (the character c), "any" (.), "notslash" ([^/])
\*       at least min repetitions (0 or 1), greedy; many: no upper limit
\*       (+ and *), otherwise at most one; cap: the token is a capture group
Tok(atom, c, min, many, cap) ==
    [k |-> "rep", atom |-> atom, c |-> c, min |-> min, many |-> many, cap |-> cap]

\* the atom starting at s[i]: [ok, tok, next] (only the syntax the
\* templates of the model can produce is parsed; anything else is an error,
\* the panic of Regex::new(..).unwrap())
ParseAtom(s, i) ==
    IF i > Len(s) THEN [ok |-> FALSE]
    ELSE IF s[i] = "\\"
    THEN IF i + 1 <= Len(s)
         THEN [ok |-> TRUE, atom |-> "lit", c |-> s[i + 1], next |-> i + 2]
         ELSE [ok |-> FALSE]
    ELSE IF s[i] = "."
    THEN [ok |-> TRUE, atom |-> "any", c |-> ".", next |-> i + 1]
    ELSE IF s[i] = "["
    THEN IF i + 3 <= Len(s) /\ SubSeq(s, i, i + 3) = <<"[", "^", "/", "]">>
         THEN [ok |-> TRUE, atom |-> "notslash", c |-> "/", next |-> i + 4]
         ELSE [ok |-> FALSE]
    ELSE IF s[i] \in {"+", "*", "?", "(", ")", "]", "{", "}", "|", "^", "$"}
    THEN [ok |-> FALSE]
    ELSE [ok |-> TRUE, atom |-> "lit", c |-> s[i], next |-> i + 1]

\* an atom with its optional greedy quantifier: [ok, tok, next]
ParseQuantified(s, i, cap) ==
    LET a == ParseAtom(s, i) IN
    IF ~a.ok THEN [ok |-> FALSE]
    ELSE LET q == IF a.next <= Len(s) THEN s[a.next] ELSE "" IN
         IF q = "+" THEN [ok |-> TRUE, tok |-> Tok(a.atom, a.c, 1, TRUE, cap), next |-> a.next + 1]
         ELSE IF q = "*" THEN [ok |-> TRUE, tok |-> Tok(a.atom, a.c, 0, TRUE, cap), next |-> a.next + 1]
         ELSE IF q = "?" THEN [ok |-> TRUE, tok |-> Tok(a.atom, a.c, 0, FALSE, cap), next |-> a.next + 1]
         ELSE [ok |-> TRUE, tok |-> Tok(a.atom, a.c, 1, FALSE, cap), next |-> a.next]

RECURSIVE RegexParse(_, _, _)
RegexParse(s, i, toks) ==
    IF i > Len(s) THEN Some(toks)
    ELSE IF s[i] = "^" THEN RegexParse(s, i + 1, Append(toks, [k |-> "start"]))
    ELSE IF s[i] = "$" THEN RegexParse(s, i + 1, Append(toks, [k |-> "end"]))
    ELSE IF s[i] = "("
    THEN LET g == ParseQuantified(s, i + 1, TRUE) IN
         IF g.ok /\ g.next <= Len(s) /\ s[g.next] = ")"
         THEN RegexParse(s, g.next + 1, Append(toks, g.tok))
         ELSE None
    ELSE LET q == ParseQuantified(s, i, FALSE) IN
         IF q.ok THEN RegexParse(s, q.next, Append(toks, q.tok)) ELSE None

\* router.rs:74  Regex::new(&regex_str): Some(tokens), or None for Err
RegexNew(regex_str) == RegexParse(regex_str, 1, <<>>)

AtomAccepts(tok, ch) ==
    CASE tok.atom = "lit" -> ch = tok.c
      [] tok.atom = "any" -> ch # "\n"
      [] tok.atom = "notslash" -> ch # "/"

RECURSIVE RunLength(_, _, _, _)
\* the number of characters from p on that the atom accepts, at most lim
RunLength(tok, path, p, lim) ==
    IF lim > 0 /\ p <= Len(path) /\ AtomAccepts(tok, path[p])
    THEN 1 + RunLength(tok, path, p + 1, lim - 1)
    ELSE 0

RECURSIVE MatchFrom(_, _, _, _)
RECURSIVE TryLength(_, _, _, _, _)
\* a repeated atom taking n characters at p, then the rest of the regex;
\* greedy with backtracking: on failure one character fewer, down to tok.min
TryLength(toks, t, path, p, n) ==
    LET tok == toks[t]
        rest == MatchFrom(toks, t + 1, path, p + n)
    IN IF rest.some
       THEN Some((IF tok.cap THEN <<SubSeq(path, p, p + n - 1)>> ELSE <<>>) \o rest.v)
       ELSE IF n > tok.min THEN TryLength(toks, t, path, p, n - 1)
       ELSE None

\* the preferred (leftmost-first, greedy) match of toks[t..] at position p:
\* Some(captured substrings of the groups, in order) or None
MatchFrom(toks, t, path, p) ==
    IF t > Len(toks) THEN Some(<<>>)
    ELSE LET tok == toks[t] IN
         IF tok.k = "start"
         THEN IF p = 1 THEN MatchFrom(toks, t + 1, path, p) ELSE None
         ELSE IF tok.k = "end"
         THEN IF p = Len(path) + 1 THEN MatchFrom(toks, t + 1, path, p) ELSE None
         ELSE LET run == RunLength(tok, path, p, IF tok.many THEN Len(path) ELSE 1) IN
              IF run < tok.min THEN None ELSE TryLength(toks, t, path, p, run)

RECURSIVE SearchFrom(_, _, _)
\* the unanchored leftmost search: the first start position with a match
SearchFrom(toks, path, s) ==
    IF s > Len(path) + 1 THEN None
    ELSE LET m == MatchFrom(toks, 1, path, s) IN
         IF m.some THEN m ELSE SearchFrom(toks, path, s + 1)

\* router.rs:82  self.regex.captures(path): Some(<<group 1, group 2, ...>>)
RegexCaptures(toks, path) == SearchFrom(toks, path, 1)

(* ------------------------------ Route --------------------------------- *)
\* router.rs:30-39  Route::new; regex.some = FALSE stands for the panic of
\* Regex::new(..).unwrap()
RouteNew(method, path, handler) ==
    LET c == path_to_regex(path) IN
    [path |-> path, method |-> method, regex |-> RegexNew(c.regex_str),
     param_names |-> c.param_names, handler |-> handler]

\* HashMap::insert
MapInsert(map, key, val) ==
    [x \in DOMAIN map \cup {key} |-> IF x = key THEN val ELSE map[x]]

EmptyMap == [x \in {} |-> <<>>]

RECURSIVE CollectParams(_, _, _, _)
\* router.rs:84-88: for (i, param_name) in param_names.iter().enumerate(),
\* insert captures.get(i + 1) under param_name when it is Some
CollectParams(param_names, caps, i, params) ==
    IF i > Len(param_names) THEN params
    ELSE CollectParams(param_names, caps, i + 1,
            IF i <= Len(caps) THEN MapInsert(params, param_names[i], caps[i]) ELSE params)

\* Route::matches without the method test of lines 78-80
RouteMatchesAnyMethod(route, method, path) ==
    LET captures == RegexCaptures(route.regex.v, path) IN
    IF captures.some
    THEN Some(CollectParams(route.param_names, captures.v, 1, EmptyMap))
    ELSE None

\* router.rs:77-93  Route::matches
RouteMatches(route, method, path) ==
    IF route.method # method THEN None
    ELSE LET captures == RegexCaptures(route.regex.v, path) IN
         IF captures.some
         THEN Some(CollectParams(route.param_names, captures.v, 1, EmptyMap))
         ELSE None

(* ------------------------------ Router -------------------------------- *)
RECURSIVE FindRouteLast(_, _, _, _)
\* a route loop without the early return: the last matching route wins
FindRouteLast(rs, method, path, i) ==
    IF i > Len(rs) THEN 0
    ELSE LET later == FindRouteLast(rs, method, path, i + 1) IN
         IF later # 0 THEN later
         ELSE IF RouteMatches(rs[i], method, path).some THEN i ELSE 0

RECURSIVE FindRoute(_, _, _, _)
\* router.rs:151-164: for route in &self.routes { if let Some(params) =
\* route.matches(..) { ...; return ... } }: the index of the first route
\* from i on that matches, 0 when the loop falls through
FindRoute(rs, method, path, i) ==
    IF i > Len(rs) THEN 0
    ELSE IF RouteMatches(rs[i], method, path).some THEN i
    ELSE FindRoute(rs, method, path, i + 1)

\* router.rs:172-175  struct MiddlewareHandler { middleware, next }
MiddlewareHandler(mw, next) ==
    [type |-> "MiddlewareHandler", middleware |-> mw, next |-> next]

\* the handler registered with the route at index i (an endpoint closure)
RouteHandler(i) == [type |-> "fn", id |-> i]

RECURSIVE FoldForward(_, _, _)
\* a fold without .rev(): the last-registered middleware ends up outermost
FoldForward(mws, i, next) ==
    IF i > Len(mws) THEN next
    ELSE FoldForward(mws, i + 1, MiddlewareHandler(mws[i], next))

RECURSIVE FoldRev(_, _, _)
\* router.rs:157-160  self.middleware.iter().rev().fold(handler, |next, m| ..)
\* from index i down to 1
FoldRev(mws, i, next) ==
    IF i = 0 THEN next
    ELSE FoldRev(mws, i - 1, MiddlewareHandler(mws[i], next))

\* FoldChain with the first-registered middleware left out of the chain
FoldChainSkipFirst(mws, handler) ==
    IF mws = <<>> THEN handler ELSE FoldRev(Tail(mws), Len(mws) - 1, handler)

\* FoldChain without the .rev()
FoldChainNoRev(mws, handler) == FoldForward(mws, 1, handler)

\* router.rs:156-160  final_handler
FoldChain(mws, handler) == FoldRev(mws, Len(mws), handler)

\* Result<Response, Box<dyn Error>>
Ok(response) == [ok |-> TRUE, v |-> response]
Err(error) == [ok |-> FALSE, v |-> error]

\* router.rs:167  AppError::NotFound(format!("Route not found: {}", path))
NotFound(path) == [kind |-> "NotFound", msg |-> <<"Route not found: ">> \o path]

\* the assignment left out: req.params stays as it came
SetParamsKeepOld(old, new) == old

\* router.rs:153  req.params = params: the value of req.params afterwards
SetParams(old, new) == new

(* ------------------------------ inputs -------------------------------- *)
\* the pieces templates are built from: a separator, literals (one of them
\* a character special in regex syntax), two named parameters, the wildcard
Pieces == {<<"/">>, <<"a">>, <<".">>, <<":", "x">>, <<":", "y">>, <<"*">>}

RECURSIVE Concats(_, _)
\* the concatenations of at most n elements of P
Concats(P, n) ==
    IF n = 0 THEN {<<>>}
    ELSE LET S == Concats(P, n - 1) IN S \cup {s \o q : s \in S, q \in P}

\* /users/:id, /files/*, and a literal template of regex-special characters
TplUsersId == <<"/", "u", "s", "e", "r", "s", "/", ":", "i", "d">>
TplFilesStar == <<"/", "f", "i", "l", "e", "s", "/", "*">>
TplSpecials == <<"/", ".", "+", "?", "(", "$", "/", "/", "a">>
ExampleTemplates == {TplUsersId, TplFilesStar, TplSpecials}

Templates == Concats(Pieces, MaxPieces) \cup ExampleTemplates

PathChars == {<<"/">>, <<"a">>, <<".">>}

PathUsers42 == <<"/", "u", "s", "e", "r", "s", "/", "4", "2">>
PathUsers42Extra == PathUsers42 \o <<"/", "e", "x", "t", "r", "a">>
PathUsersSlash == <<"/", "u", "s", "e", "r", "s", "/">>
PathFilesABC ==
    <<"/", "f", "i", "l", "e", "s", "/", "a", "/", "b", "/", "c", ".", "t", "x", "t">>
PathSpecialsCollapsed == <<"/", ".", "+", "?", "(", "$", "/", "a">>
ExamplePaths ==
    {PathUsers42, PathUsers42Extra, PathUsersSlash, PathFilesABC, PathSpecialsCollapsed}

Paths == Concats(PathChars, MaxPathLen) \cup ExamplePaths

(* ----------------------------- state ---------------------------------- *)
VARIABLES
    \* Route::new / Route::matches exercised on their own (SpecMatch)
    route,         \* Route under test (None before Route::new)
    match_method,  \* arguments of the last Route::matches call
    match_path,
    params,        \* what Route::matches returned
    \* struct Router (router.rs:96-99)
    routes,
    middleware,
    \* one handle_request call (router.rs:149-168)
    pc,            \* "build": the builder still owns the Router; "chain": the
                   \* folded chain is running (awaited at line 162); "done"
    inreq,         \* the request as handle_request received it
    req,           \* the request as handed to the chain
    selected,      \* index of the route whose handler was selected, 0: none
    cur,           \* Some(handler) about to be invoked with req, else None
    stack,         \* middleware awaiting next.handle(req), innermost last
    result,        \* Some(Result) once a handler or middleware has returned
    trace          \* the events of this call, in order

matchVars == <<route, match_method, match_path, params>>

routerVars == <<routes, middleware>>

callVars == <<pc, inreq, req, selected, cur, stack, result, trace>>

VARIABLES
    limiter,       \* None, or Some(RateLimiter): max_requests, window_seconds
    requests,      \* RateLimiter.requests: key |-> [count, last_request]
    clock,         \* what Instant::now() returns, in ticks
    tasks,         \* the calls of RateLimiter::handle in flight or finished
    served,        \* the calls that left the locked section, in that order
    mutex          \* None, or Some(the call that holds the guard of `requests`)

rateVars == <<limiter, requests, clock, tasks, served, mutex>>

VARIABLES
    mw,            \* None, or Some(middleware under test): AuthGuard, Cors, Logger
    mw_pc,         \* "idle"; "next": awaiting next.handle(req); "done"
    mw_in,         \* the request the current call of handle received
    mw_local,      \* the locals the call holds across the await
    next_reqs,     \* the requests next.handle was invoked with by this call
    next_ret,      \* Some(Result) once next.handle(req) has returned to the call
    mw_result,     \* Some(Result) once the call has returned
    stdout         \* the lines printed since the call began

mwVars == <<mw, mw_pc, mw_in, mw_local, next_reqs, next_ret, mw_result, stdout>>

VARIABLES
    app,           \* struct App: static_handler, error_handler (router: routes, middleware)
    app_pc,        \* "build"; "router": awaiting router.handle_request; "done"
    app_in,        \* the request the current call of App::handle received
    app_via,       \* which of "static" and "router" the call handed the request to
    eh_calls,      \* the AppErrors the error handler was invoked with by this call
    eh_ret,        \* Some(Result) once the error handler has returned
    app_result     \* Some(Result) once App::handle has returned

appVars == <<app, app_pc, app_in, app_via, eh_calls, eh_ret, app_result>>

VARIABLES
    policy,        \* what the registered middleware and handlers do with a request
    first          \* None, or Some(a finished GET dispatch and its outcome)

repeatVars == <<policy, first>>

VARIABLES
    parked         \* the call of handle_request on the other connection, suspended

connVars == <<parked>>

VARIABLES
    sessions,      \* MemorySessionStore.sessions: id |-> Session
    uuids,         \* how many session ids Uuid::new_v4 has handed out
    sm_pc,         \* SessionMiddleware::handle: "idle"; "next": awaiting next; "done"
    sm_session,    \* the call's local `session`
    sm_req,        \* req.session as the inner chain holds it
    sm_result      \* what the call returned

sessVars == <<sessions, uuids, sm_pc, sm_session, sm_req, sm_result>>

VARIABLES
    request_counter,   \* Metrics.request_counter
    request_duration,  \* Metrics.request_duration, in ticks
    error_counter,     \* Metrics.error_counter
    mt_calls,          \* the calls of MetricsMiddleware::handle
    ex_pc,             \* Metrics::export: "idle", "requests", "errors" (what it has read)
    ex_local,          \* the locals request_count and error_count of the export
    reports            \* the reports export has returned

metricsVars == <<request_counter, request_duration, error_counter, mt_calls,
                 ex_pc, ex_local, reports>>

VARIABLES
    GLOBAL_CONFIG,     \* the OnceCell<Config>
    config_calls       \* the calls of init_config and get_config, oldest first

configVars == <<GLOBAL_CONFIG, config_calls>>

VARIABLES
    api_routes,        \* ApiRegistry.routes
    api_pc,            \* ApiRegistry::handle_request: "idle", or "done" once it returned
    api_in,            \* the request as handle_request received it
    api_req,           \* the request as handed to the ApiHandler
    api_selected,      \* index of the route whose handler was called, 0: none
    api_response       \* what handle_request returned: None or Some(response)

apiVars == <<api_routes, api_pc, api_in, api_req, api_selected, api_response>>

VARIABLES
    files,             \* the files under root_dir: relative path |-> content
    cache,             \* AssetManager.cache of the manager that is the Handler
    asset_calls        \* the calls served, oldest first

assetVars == <<files, cache, asset_calls>>

lateVars == <<sessVars, metricsVars, configVars, apiVars, assetVars>>

extVars == <<rateVars, mwVars, repeatVars, connVars, lateVars>>

notRateVars == <<matchVars, routerVars, callVars, mwVars, appVars, repeatVars, connVars, lateVars>>

notMwVars == <<matchVars, routerVars, callVars, rateVars, appVars, repeatVars, connVars, lateVars>>

\* everything that is not one of the later subsystems
coreVars == <<matchVars, routerVars, callVars, rateVars, mwVars, appVars, repeatVars, connVars>>

notSessVars == <<coreVars, metricsVars, configVars, apiVars, assetVars>>

notMetricsVars == <<coreVars, sessVars, configVars, apiVars, assetVars>>

notConfigVars == <<coreVars, sessVars, metricsVars, apiVars, assetVars>>

notApiVars == <<coreVars, sessVars, metricsVars, configVars, assetVars>>

notAssetVars == <<coreVars, sessVars, metricsVars, configVars, apiVars>>

vars == <<matchVars, routerVars, callVars, extVars, appVars>>

(* ------------------ Route::new, Route::matches as steps --------------- *)
MatchIdle ==
    /\ route = None
    /\ match_method = "" /\ match_path = <<>>
    /\ params = None

\* Route::new(Method::GET, path, handler)
NewRoute(path) ==
    /\ route = None
    /\ route' = Some(RouteNew("GET", path, 1))
    /\ UNCHANGED <<match_method, match_path, params, routerVars, callVars, extVars, appVars>>

\* route.matches(&method, path)
Matches(method, path) ==
    /\ route.some /\ route.v.regex.some /\ match_method = ""
    /\ match_method' = method
    /\ match_path' = path
    /\ params' = RouteMatches(route.v, method, path)
    /\ UNCHANGED <<route, routerVars, callVars, extVars, appVars>>

\* the paths tried against the route: every short path, and the text of the
\* template itself
CandidatePaths == IF route.some THEN Paths \cup {route.v.path} ELSE {}


(* ------------------------- Router as a machine ------------------------ *)
\* the templates and requests the Router is exercised with
TplAX == <<"/", "a", "/", ":", "x">>
TplAF == <<"/", "a", "/", "f">>
RouteTemplates == {TplAX, TplAF}

PathAF == <<"/", "a", "/", "f">>
PathAB == <<"/", "a", "/", "b">>
PathB == <<"/", "b">>

\* parameter maps a caller may have put into the request beforehand
PriorParams == {EmptyMap, [n \in {<<"x">>, <<"k">>} |-> <<"o">>]}

\* request.rs:8-21: every request also carries headers, a query map, a body
\* and the identity and session fields, which the Router never looks at
Requests ==
    [method : {"GET", "POST"}, path : {PathAF, PathAB, PathB}, params : PriorParams,
     headers : {[n \in {"accept"} |-> "text/html"]},
     query : {[n \in {"q"} |-> "1"]},
     body : {"payload"},
     user_id : {Some("u1")},
     user_roles : {<<"admin">>},
     session : {Some("s1")}]

\* the new route put in front of the list
PushRouteFront(method, path) ==
    /\ Len(routes) < MaxRoutes
    /\ routes' = <<RouteNew(method, path, RouteHandler(Len(routes) + 1))>> \o routes
    /\ UNCHANGED <<middleware, callVars, matchVars, extVars, appVars>>

\* router.rs:109-139  self.routes.push(Route::new(method, path, Arc::new(handler)))
\* (the builder methods take the Router by value: they run before it serves)
PushRoute(method, path) ==
    /\ Len(routes) < MaxRoutes
    /\ routes' = Append(routes, RouteNew(method, path, RouteHandler(Len(routes) + 1)))
    /\ UNCHANGED <<middleware, callVars, matchVars, extVars, appVars>>

\* router.rs:109-115
Get(path) ==
    /\ pc = "build"
    /\ PushRoute("GET", path)

\* router.rs:117-123
Post(path) ==
    /\ pc = "build"
    /\ PushRoute("POST", path)

\* router.rs:125-131
Put(path) ==
    /\ pc = "build"
    /\ PushRoute("PUT", path)

\* router.rs:133-139
Delete(path) ==
    /\ pc = "build"
    /\ PushRoute("DELETE", path)

\* router.rs:141-147; a middleware object is named by its registration number
UseMiddleware ==
    /\ pc = "build"
    /\ Len(middleware) < MaxMiddleware
    /\ middleware' = Append(middleware, Len(middleware) + 1)
    /\ UNCHANGED <<routes, callVars, matchVars, extVars, appVars>>

\* the chain folded before the routes are searched: with no route matching,
\* the middleware still run, around a handler that answers NotFound
HandleRequestChainFirst(r) ==
    /\ pc \in {"build", "done"}
    /\ inreq' = r
    /\ trace' = <<>>
    /\ stack' = <<>>
    /\ result' = None
    /\ pc' = "chain"
    /\ LET i == FindRoute(routes, r.method, r.path, 1) IN
       /\ selected' = i
       /\ IF i # 0
          THEN /\ req' = [r EXCEPT !.params =
                              SetParams(r.params, RouteMatches(routes[i], r.method, r.path).v)]
               /\ cur' = Some(FoldChain(middleware, routes[i].handler))
          ELSE /\ req' = r
               /\ cur' = Some(FoldChain(middleware, RouteHandler(0)))
    /\ UNCHANGED <<routerVars, matchVars, extVars>>

\* router.rs:149-162 (a route matches) and 149-167 (none does)
HandleRequest(r) ==
    /\ pc \in {"build", "done"}
    /\ inreq' = r
    /\ trace' = <<>>
    /\ stack' = <<>>
    /\ LET i == FindRoute(routes, r.method, r.path, 1) IN
       /\ selected' = i
       /\ IF i # 0
          THEN /\ req' = [r EXCEPT !.params =
                              SetParams(r.params, RouteMatches(routes[i], r.method, r.path).v)]
               /\ cur' = Some(FoldChain(middleware, routes[i].handler))
               /\ result' = None
               /\ pc' = "chain"
          ELSE /\ req' = r
               /\ cur' = None
               /\ result' = Some(Err(NotFound(r.path)))
               /\ pc' = "done"
    /\ UNCHANGED <<routerVars, matchVars, extVars>>

InEvent(m) == [who |-> "M", id |-> m, ev |-> "in"]
OutEvent(m, res) == [who |-> "M", id |-> m, ev |-> "out", saw |-> res]
HandlerEvent(h) == [who |-> "H", id |-> h, ev |-> "run"]

AtMiddleware == pc = "chain" /\ cur.some /\ cur.v.type = "MiddlewareHandler"

\* router.rs:179-181 and middleware/mod.rs:8-12: MiddlewareHandler::handle
\* enters the middleware, which forwards to next (mod.rs:30, 76) ...
MiddlewareForward ==
    /\ AtMiddleware
    /\ trace' = Append(trace, InEvent(cur.v.middleware))
    /\ stack' = Append(stack, cur.v.middleware)
    /\ cur' = Some(cur.v.next)
    /\ UNCHANGED <<pc, inreq, req, selected, result, routerVars, matchVars, extVars, appVars>>

\* ... or returns a response of its own without invoking next (mod.rs:68-74)
MiddlewareShortCircuit ==
    /\ AtMiddleware
    /\ trace' = Append(trace, InEvent(cur.v.middleware))
    /\ result' = Some(Ok([by |-> "M", id |-> cur.v.middleware]))
    /\ cur' = None
    /\ UNCHANGED <<pc, inreq, req, selected, stack, routerVars, matchVars, extVars, appVars>>

\* ... or fails without invoking next
MiddlewareFail ==
    /\ AtMiddleware
    /\ trace' = Append(trace, InEvent(cur.v.middleware))
    /\ result' = Some(Err([kind |-> "Internal", by |-> "M", id |-> cur.v.middleware]))
    /\ cur' = None
    /\ UNCHANGED <<pc, inreq, req, selected, stack, routerVars, matchVars, extVars, appVars>>

\* handler.rs:19-21: the endpoint runs and returns Ok or Err
HandlerHandle(ok) ==
    /\ pc = "chain" /\ cur.some /\ cur.v.type = "fn"
    /\ trace' = Append(trace, HandlerEvent(cur.v.id))
    /\ result' = Some(IF ok THEN Ok([by |-> "H", id |-> cur.v.id])
                      ELSE Err([kind |-> "Internal", by |-> "H", id |-> cur.v.id]))
    /\ cur' = None
    /\ UNCHANGED <<pc, inreq, req, selected, stack, routerVars, matchVars, extVars, appVars>>

\* middleware/mod.rs:30-35: next.handle(req).await yields; the innermost
\* waiting middleware sees the result and returns it
MiddlewareReturn ==
    /\ pc = "chain" /\ cur = None /\ stack # <<>>
    /\ trace' = Append(trace, OutEvent(stack[Len(stack)], result.v))
    /\ stack' = SubSeq(stack, 1, Len(stack) - 1)
    /\ UNCHANGED <<pc, inreq, req, selected, cur, result, routerVars, matchVars, extVars, appVars>>

\* the Router answering a failed chain with an error of its own
ReturnNotFound ==
    /\ pc = "chain" /\ cur = None /\ stack = <<>>
    /\ pc' = "done"
    /\ result' = IF result.v.ok THEN result ELSE Some(Err(NotFound(req.path)))
    /\ UNCHANGED <<inreq, req, selected, cur, stack, trace, routerVars, matchVars, extVars, appVars>>

\* a call that takes the route it served out of the table
ReturnForgetsRoute ==
    /\ pc = "chain" /\ cur = None /\ stack = <<>>
    /\ pc' = "done"
    /\ routes' = [k \in 1 .. Len(routes) - 1 |->
                      IF k < selected THEN routes[k] ELSE routes[k + 1]]
    /\ UNCHANGED <<inreq, req, selected, cur, stack, result, trace, middleware, matchVars, extVars, appVars>>

\* router.rs:162  return final_handler.handle(req).await
Return ==
    /\ pc = "chain" /\ cur = None /\ stack = <<>>
    /\ pc' = "done"
    /\ UNCHANGED <<inreq, req, selected, cur, stack, result, trace, routerVars, matchVars, extVars, appVars>>

\* router.rs:102-107  Router::new()
RouterNew == routes = <<>> /\ middleware = <<>>

CallIdle ==
    /\ pc = "build"
    /\ inreq = None /\ req = None
    /\ selected = 0
    /\ cur = None /\ stack = <<>> /\ result = None /\ trace = <<>>

(* ================= middleware/auth_guard.rs: RateLimiter ============== *)
MaxLimit == 1          \* max_requests ranges over 0 .. MaxLimit
MaxWindow == 1         \* window_seconds ranges over 0 .. MaxWindow
MaxArrivals == 2       \* calls of RateLimiter::handle in one behaviour
MaxClock == 4          \* the clock stops after this many ticks
TicksPerSecond == 2    \* resolution of Instant in the model

\* a u32 is held as <<high half, low half>>, each half 16 bits wide
HalfModulus == 65536
U32Of(n) == <<n \div HalfModulus, n % HalfModulus>>
\* u32 `+= 1` as a release build computes it: the sum wraps to 0
U32Inc(x) ==
    LET lo == (x[2] + 1) % HalfModulus
    IN  <<IF lo = 0 THEN (x[1] + 1) % HalfModulus ELSE x[1], lo>>
U32Gt(a, b) == a[1] > b[1] \/ (a[1] = b[1] /\ a[2] > b[2])
OK == 200
TOO_MANY_REQUESTS == 429

\* response.rs:12-18  Response::new()
ResponseNew == [status |-> OK, headers |-> EmptyMap, body |-> ""]
\* response.rs:20-23
WithStatus(r, status) == [r EXCEPT !.status = status]
\* response.rs:26-29
WithHeader(r, key, value) == [r EXCEPT !.headers = MapInsert(r.headers, key, value)]
\* response.rs:31-36; serialising a json! literal cannot fail
Json(r, data) ==
    [r EXCEPT !.body = data,
              !.headers = MapInsert(r.headers, "Content-Type", "application/json")]

DigitChars == <<"0", "1", "2", "3", "4", "5", "6", "7", "8", "9">>

\* u64::to_string(): the decimal digits, most significant first
RECURSIVE U64ToString(_)
U64ToString(n) ==
    IF n < 10 THEN <<DigitChars[n + 1]>>
    ELSE Append(U64ToString(n \div 10), DigitChars[(n % 10) + 1])

\* HashMap::get
MapGet(map, key) == IF key \in DOMAIN map THEN Some(map[key]) ELSE None

\* the headers of a request: name |-> value, a value being a sequence of bytes
HeaderGet(headers, name) == MapGet(headers, name)

\* Option::or_else
OrElse(opt, alt) == IF opt.some THEN opt ELSE alt

\* HeaderValue::to_str(): Ok only when every byte is visible ASCII or a tab
IsVisibleAscii(b) == (b >= 32 /\ b < 127) \/ b = 9
ToStr(v) == IF \A i \in 1 .. Len(v) : IsVisibleAscii(v[i]) THEN Some(v) ELSE None

\* the bytes of "unknown"
Unknown == <<117, 110, 107, 110, 111, 119, 110>>

\* auth_guard.rs:89-94
ClientIp(headers) ==
    LET h == OrElse(HeaderGet(headers, "x-forwarded-for"), HeaderGet(headers, "x-real-ip"))
        str == IF h.some THEN ToStr(h.v) ELSE None
    IN  IF str.some THEN str.v ELSE Unknown

\* Instant::duration_since saturates to zero when `earlier` is later
DurationSince(now, earlier) == IF now >= earlier THEN now - earlier ELSE 0
\* Duration::as_secs(): whole seconds, the fraction dropped
AsSecs(d) == d \div TicksPerSecond

\* auth_guard.rs:102-103  entry(client_ip).or_insert((0, now))
EntryOrInsert(table, key, now) ==
    IF key \in DOMAIN table THEN table ELSE MapInsert(table, key, <<U32Of(0), now>>)

\* auth_guard.rs:106
WindowPassed(now, last_request, window_seconds) ==
    AsSecs(DurationSince(now, last_request)) > window_seconds

\* auth_guard.rs:106-111: the entry after the reset test and the increment
CountOn(entry, now, window_seconds) ==
    LET e == IF WindowPassed(now, entry[2], window_seconds) THEN <<U32Of(0), now>> ELSE entry
    IN  <<U32Inc(e[1]), e[2]>>

\* the limit test taken one request early
ExceededAtLimit(count, max_requests) == ~U32Gt(max_requests, count)

\* auth_guard.rs:113
Exceeded(count, max_requests) == U32Gt(count, max_requests)

\* the table with every entry rewritten to the caller's
TableAllKeys(table, key, entry) == [k \in DOMAIN table |-> entry]

\* auth_guard.rs:102-111: *count and *last_request are written through the
\* entry of client_ip
TableWith(table, key, entry) == [table EXCEPT ![key] = entry]

\* auth_guard.rs:116-121
RateLimitResponse(window_seconds) ==
    Json(WithHeader(WithStatus(ResponseNew, TOO_MANY_REQUESTS),
                    "Retry-After", U64ToString(window_seconds)),
         "{\"error\":\"Rate limit exceeded\"}")

\* header values: two addresses and one value that is no ASCII text
Addr1 == <<49>>
Addr2 == <<50>>
Opaque == <<233>>

HeaderChoices ==
    { EmptyMap,
      [n \in {"x-forwarded-for"} |-> Addr1],
      [n \in {"x-real-ip"} |-> Addr2],
      [n \in {"x-forwarded-for", "x-real-ip"} |->
            IF n = "x-forwarded-for" THEN Addr1 ELSE Addr2],
      [n \in {"x-forwarded-for", "x-real-ip"} |->
            IF n = "x-forwarded-for" THEN Opaque ELSE Addr2] }

\* what the inner handler may return
InnerResults ==
    { Ok(WithStatus(ResponseNew, OK)), Err([kind |-> "Internal", by |-> "next"]) }

\* auth_guard.rs:73-79  RateLimiter::new(max_requests, window_seconds)
RateLimiterNew(max_requests, window_seconds) ==
    /\ limiter = None
    /\ limiter' = Some([max_requests |-> U32Of(max_requests), window_seconds |-> window_seconds])
    /\ requests' = EmptyMap
    /\ UNCHANGED <<clock, tasks, served, mutex, notRateVars>>

\* time passes
Tick ==
    /\ clock < MaxClock
    /\ clock' = clock + 1
    /\ UNCHANGED <<limiter, requests, tasks, served, mutex, notRateVars>>

\* auth_guard.rs:89-96: the key and `now` are taken before the lock
RateEnter(headers) ==
    /\ limiter.some
    /\ Len(tasks) < MaxArrivals
    /\ tasks' = Append(tasks, [pc |-> "lock",
                               req |-> Some([headers |-> headers]),
                               client_ip |-> ClientIp(headers),
                               now |-> clock,
                               exceeded |-> FALSE,
                               next_req |-> None,
                               next_calls |-> 0,
                               next_ret |-> None,
                               local |-> None,
                               response |-> None])
    /\ UNCHANGED <<limiter, requests, clock, served, mutex, notRateVars>>

\* auth_guard.rs:99-114: the synchronous block under the mutex
RateLocked(t) ==
    /\ tasks[t].pc = "lock"
    /\ LET key == tasks[t].client_ip
           table == EntryOrInsert(requests, key, tasks[t].now)
           entry == CountOn(table[key], tasks[t].now, limiter.v.window_seconds)
           over == Exceeded(entry[1], limiter.v.max_requests)
       IN  /\ requests' = TableWith(table, key, entry)
           /\ tasks' = [tasks EXCEPT ![t].pc = "decided", ![t].exceeded = over]
           /\ served' = Append(served, [task |-> t, key |-> key, now |-> tasks[t].now,
                                        count |-> entry[1], last_request |-> entry[2],
                                        before |-> MapGet(requests, key),
                                        exceeded |-> over])
    /\ UNCHANGED <<limiter, clock, mutex, notRateVars>>

(* the locked section when the count is at the top of u32 *)
U32Max == <<HalfModulus - 1, HalfModulus - 1>>

\* std::sync::Mutex after a thread panicked while holding the guard
Poisoned == Some("poisoned")

\* auth_guard.rs:111  `*count += 1` with overflow checks on (a debug build):
\* the addition panics at u32::MAX, inside the locked section; the entry
\* stays as it was and the mutex is poisoned
RateOverflowPanics(t) ==
    /\ tasks[t].pc = "lock" /\ mutex = None
    /\ LET key == tasks[t].client_ip
           table == EntryOrInsert(requests, key, tasks[t].now)
       IN  /\ ~WindowPassed(tasks[t].now, table[key][2], limiter.v.window_seconds)
           /\ table[key][1] = U32Max
           /\ requests' = table
    /\ tasks' = [tasks EXCEPT ![t].pc = "panicked", ![t].req = None]
    /\ mutex' = Poisoned
    /\ UNCHANGED <<limiter, clock, served, notRateVars>>

\* auth_guard.rs:100  lock().unwrap() on the poisoned mutex panics
RateLockPoisoned(t) ==
    /\ tasks[t].pc = "lock" /\ mutex = Poisoned
    /\ tasks' = [tasks EXCEPT ![t].pc = "panicked", ![t].req = None]
    /\ UNCHANGED <<limiter, requests, clock, served, mutex, notRateVars>>

(* the locked section step by step, for calls that run concurrently *)
\* the guard taken whether or not another call holds it
RateAcquireUnguarded(t) ==
    /\ tasks[t].pc = "lock"
    /\ mutex' = Some(t)
    /\ tasks' = [tasks EXCEPT ![t].pc = "held"]
    /\ UNCHANGED <<limiter, requests, clock, served, notRateVars>>

\* lock() answering Err (a poisoned mutex): unwrap() panics and the call ends
\* without an outcome
RateAcquirePanics(t) ==
    /\ tasks[t].pc = "lock"
    /\ tasks' = [tasks EXCEPT ![t].pc = "panicked"]
    /\ UNCHANGED <<limiter, requests, clock, served, mutex, notRateVars>>

\* auth_guard.rs:100  self.requests.lock().unwrap(): the thread blocks until
\* the mutex is free
RateAcquire(t) ==
    /\ tasks[t].pc = "lock"
    /\ mutex = None
    /\ mutex' = Some(t)
    /\ tasks' = [tasks EXCEPT ![t].pc = "held"]
    /\ UNCHANGED <<limiter, requests, clock, served, notRateVars>>

\* auth_guard.rs:102-103  entry(client_ip).or_insert((0, now)); the entry is
\* read
RateEntry(t) ==
    /\ tasks[t].pc = "held"
    /\ LET key == tasks[t].client_ip
           table == EntryOrInsert(requests, key, tasks[t].now)
       IN  /\ requests' = table
           /\ tasks' = [tasks EXCEPT ![t].pc = "entry",
                                     ![t].local = Some([before |-> MapGet(requests, key),
                                                        entry |-> table[key]])]
    /\ UNCHANGED <<limiter, clock, served, mutex, notRateVars>>

\* auth_guard.rs:106-113: reset test, increment, limit test; the entry is
\* written
RateCount(t) ==
    /\ tasks[t].pc = "entry"
    /\ LET key == tasks[t].client_ip
           entry == CountOn(tasks[t].local.v.entry, tasks[t].now, limiter.v.window_seconds)
           over == Exceeded(entry[1], limiter.v.max_requests)
       IN  /\ requests' = TableWith(requests, key, entry)
           /\ tasks' = [tasks EXCEPT ![t].pc = "counted", ![t].exceeded = over,
                                     ![t].local = None]
           /\ served' = Append(served, [task |-> t, key |-> key, now |-> tasks[t].now,
                                        count |-> entry[1], last_request |-> entry[2],
                                        before |-> tasks[t].local.v.before,
                                        exceeded |-> over])
    /\ UNCHANGED <<limiter, clock, mutex, notRateVars>>

\* the section left with the guard still alive
RateReleaseKeepsGuard(t) ==
    /\ tasks[t].pc = "counted"
    /\ tasks' = [tasks EXCEPT ![t].pc = "decided"]
    /\ UNCHANGED <<limiter, requests, clock, served, mutex, notRateVars>>

\* auth_guard.rs:114  requests_guard is dropped at the end of the block
RateRelease(t) ==
    /\ tasks[t].pc = "counted"
    /\ mutex' = None
    /\ tasks' = [tasks EXCEPT ![t].pc = "decided"]
    /\ UNCHANGED <<limiter, requests, clock, served, notRateVars>>

\* auth_guard.rs:123: the future is dropped while it awaits next.handle(req)
RateCancel(t) ==
    /\ tasks[t].pc = "next"
    /\ tasks' = [tasks EXCEPT ![t].pc = "cancelled", ![t].next_req = None]
    /\ UNCHANGED <<limiter, requests, clock, served, mutex, notRateVars>>

\* auth_guard.rs:116-121
RateReject(t) ==
    /\ tasks[t].pc = "decided" /\ tasks[t].exceeded
    /\ tasks' = [tasks EXCEPT ![t].pc = "done", ![t].req = None,
                    ![t].response = Some(Ok(RateLimitResponse(limiter.v.window_seconds)))]
    /\ UNCHANGED <<limiter, requests, clock, served, mutex, notRateVars>>

\* auth_guard.rs:123  next.handle(req) is called ...
RateForward(t) ==
    /\ tasks[t].pc = "decided" /\ ~tasks[t].exceeded
    /\ tasks' = [tasks EXCEPT ![t].pc = "next", ![t].req = None,
                              ![t].next_req = tasks[t].req,
                              ![t].next_calls = tasks[t].next_calls + 1]
    /\ UNCHANGED <<limiter, requests, clock, served, mutex, notRateVars>>

\* ... and what it returns is returned
RateNextReturn(t, res) ==
    /\ tasks[t].pc = "next"
    /\ tasks' = [tasks EXCEPT ![t].pc = "done", ![t].next_req = None,
                              ![t].next_ret = Some(res),
                              ![t].response = Some(res)]
    /\ UNCHANGED <<limiter, requests, clock, served, mutex, notRateVars>>

(* ============ middleware: AuthGuard, Cors, Logger under a stub next ==== *)
MaxRoles == 2          \* required_roles holds at most this many roles

FOUND == 302
UNAUTHORIZED == 401
FORBIDDEN == 403

\* response.rs:56-60
Redirect(r, location) ==
    [r EXCEPT !.status = FOUND, !.headers = MapInsert(r.headers, "Location", location)]

\* auth_guard.rs:14-19  AuthGuard::new()
AuthGuardNew ==
    /\ mw = None
    /\ mw' = Some([type |-> "AuthGuard", required_roles |-> <<>>, redirect_url |-> None])
    /\ UNCHANGED <<mw_pc, mw_in, mw_local, next_reqs, next_ret, mw_result, stdout, notMwVars>>

\* auth_guard.rs:21-24
RequireRole(role) ==
    /\ mw.some /\ mw.v.type = "AuthGuard" /\ mw_pc = "idle"
    /\ Len(mw.v.required_roles) < MaxRoles
    /\ mw' = Some([mw.v EXCEPT !.required_roles = Append(mw.v.required_roles, role)])
    /\ UNCHANGED <<mw_pc, mw_in, mw_local, next_reqs, next_ret, mw_result, stdout, notMwVars>>

\* auth_guard.rs:26-29
RedirectTo(url) ==
    /\ mw.some /\ mw.v.type = "AuthGuard" /\ mw_pc = "idle"
    /\ mw' = Some([mw.v EXCEPT !.redirect_url = Some(url)])
    /\ UNCHANGED <<mw_pc, mw_in, mw_local, next_reqs, next_ret, mw_result, stdout, notMwVars>>

\* mod.rs:47-53  Cors::new()
CorsNew ==
    /\ mw = None
    /\ mw' = Some([type |-> "Cors",
                   allow_origin |-> "*",
                   allow_methods |-> "GET, POST, PUT, DELETE, OPTIONS",
                   allow_headers |-> "Content-Type, Authorization"])
    /\ UNCHANGED <<mw_pc, mw_in, mw_local, next_reqs, next_ret, mw_result, stdout, notMwVars>>

\* mod.rs:55-58
AllowOrigin(origin) ==
    /\ mw.some /\ mw.v.type = "Cors" /\ mw_pc = "idle"
    /\ mw' = Some([mw.v EXCEPT !.allow_origin = origin])
    /\ UNCHANGED <<mw_pc, mw_in, mw_local, next_reqs, next_ret, mw_result, stdout, notMwVars>>

\* mod.rs:17  struct Logger
LoggerNew ==
    /\ mw = None
    /\ mw' = Some([type |-> "Logger"])
    /\ UNCHANGED <<mw_pc, mw_in, mw_local, next_reqs, next_ret, mw_result, stdout, notMwVars>>

\* a call of handle begins: nothing returned, next not invoked, nothing printed
CallBegins(r) ==
    /\ mw.some /\ mw_pc \in {"idle", "done"}
    /\ mw_in' = Some(r)
    /\ next_ret' = None
    /\ stdout' = <<>>

\* the call returns res without (further) use of next
Returns(res) ==
    /\ mw_result' = Some(res)
    /\ mw_pc' = "done"
    /\ mw_local' = None

\* the call invokes next.handle(r), its first use of next, and awaits it,
\* holding `local`
CallsNext(r, local) ==
    /\ next_reqs' = <<r>>
    /\ mw_result' = None
    /\ mw_pc' = "next"
    /\ mw_local' = Some(local)

\* req.user_roles.contains(required_role) for some required role
HasRequiredRole(required_roles, user_roles) ==
    \E i \in 1 .. Len(required_roles) :
        \E j \in 1 .. Len(user_roles) : user_roles[j] = required_roles[i]

\* the role test without the is_empty() guard around it
RolesRefuseEvenEmpty(required_roles, user_roles) ==
    ~HasRequiredRole(required_roles, user_roles)

\* auth_guard.rs:51-55
RolesRefuse(required_roles, user_roles) ==
    Len(required_roles) # 0 /\ ~HasRequiredRole(required_roles, user_roles)

\* the answer to a request without identity when redirect_url is ignored
UnauthenticatedNoRedirect(redirect_url) ==
    Json(WithStatus(ResponseNew, UNAUTHORIZED), "{\"error\":\"Authentication required\"}")

\* auth_guard.rs:41-47
Unauthenticated(redirect_url) ==
    IF redirect_url.some
    THEN Redirect(ResponseNew, redirect_url.v)
    ELSE Json(WithStatus(ResponseNew, UNAUTHORIZED), "{\"error\":\"Authentication required\"}")

\* auth_guard.rs:56-58
Forbidden ==
    Json(WithStatus(ResponseNew, FORBIDDEN), "{\"error\":\"Insufficient permissions\"}")

\* auth_guard.rs:34-62  AuthGuard::handle up to its return or its call of next
AuthGuardHandle(r) ==
    /\ CallBegins(r) /\ mw.v.type = "AuthGuard"
    /\ IF ~r.user_id.some
       THEN Returns(Ok(Unauthenticated(mw.v.redirect_url))) /\ next_reqs' = <<>>
       ELSE IF RolesRefuse(mw.v.required_roles, r.user_roles)
       THEN Returns(Ok(Forbidden)) /\ next_reqs' = <<>>
       ELSE CallsNext(r, [type |-> "AuthGuard"])
    /\ UNCHANGED <<mw, notMwVars>>

\* auth_guard.rs:62: what next returned is returned
AuthGuardResume(res) ==
    /\ mw_pc = "next" /\ mw.v.type = "AuthGuard"
    /\ next_ret' = Some(res)
    /\ Returns(res)
    /\ UNCHANGED <<mw, mw_in, next_reqs, stdout, notMwVars>>

\* mod.rs:69-73
Preflight(cors) ==
    WithStatus(
        WithHeader(
            WithHeader(
                WithHeader(ResponseNew, "Access-Control-Allow-Origin", cors.allow_origin),
                "Access-Control-Allow-Methods", cors.allow_methods),
            "Access-Control-Allow-Headers", cors.allow_headers),
        OK)

\* the preflight test taken on GET
IsPreflightGet(method) == method = "GET"

\* mod.rs:68
IsPreflight(method) == method = "OPTIONS"

\* mod.rs:61-76  Cors::handle up to its return or its call of next
CorsHandle(r) ==
    /\ CallBegins(r) /\ mw.v.type = "Cors"
    /\ IF IsPreflight(r.method)
       THEN Returns(Ok(Preflight(mw.v))) /\ next_reqs' = <<>>
       ELSE CallsNext(r, [type |-> "Cors"])
    /\ UNCHANGED <<mw, notMwVars>>

\* mod.rs:76-78: `?` returns an error as it is; a response gets the header
CorsResume(res) ==
    /\ mw_pc = "next" /\ mw.v.type = "Cors"
    /\ next_ret' = Some(res)
    /\ Returns(IF res.ok
               THEN Ok(WithHeader(res.v, "Access-Control-Allow-Origin", mw.v.allow_origin))
               ELSE res)
    /\ UNCHANGED <<mw, mw_in, next_reqs, stdout, notMwVars>>

\* mod.rs:33  println!("{} {} {} - {:?}", method, uri, response.status, duration)
LogLine(method, uri, status, duration) == <<method, uri, status, duration>>

\* mod.rs:26-30  Logger::handle up to its call of next
LoggerHandle(r) ==
    /\ CallBegins(r) /\ mw.v.type = "Logger"
    /\ CallsNext(r, [type |-> "Logger", start |-> clock, method |-> r.method, uri |-> r.uri])
    /\ UNCHANGED <<mw, notMwVars>>

\* mod.rs:30-33: `?` returns an error before anything is printed
Printed(local, res, now) ==
    IF res.ok
    THEN <<LogLine(local.method, local.uri, res.v.status, DurationSince(now, local.start))>>
    ELSE <<>>

\* what Logger returns when every outcome of next is turned into a response
LoggerOutcomeSwallow(res) == IF res.ok THEN Ok(res.v) ELSE Ok(ResponseNew)

\* mod.rs:30, 35: `?` returns an error as it is, Ok(response) the response
LoggerOutcome(res) == IF res.ok THEN Ok(res.v) ELSE res

\* mod.rs:30-35
LoggerResume(res) ==
    /\ mw_pc = "next" /\ mw.v.type = "Logger"
    /\ next_ret' = Some(res)
    /\ stdout' = stdout \o Printed(mw_local.v, res, clock)
    /\ Returns(LoggerOutcome(res))
    /\ UNCHANGED <<mw, mw_in, next_reqs, notMwVars>>

\* the requests handed to the middleware
MwRequests ==
    [method : {"GET", "OPTIONS"},
     uri : {"/a"},
     user_id : {None, Some("u1")},
     user_roles : {<<>>, <<"admin">>, <<"viewer">>, <<"viewer", "editor">>}]

\* what the stub next may return
NextResults ==
    { Ok(WithStatus(ResponseNew, OK)),
      Ok(WithHeader(WithStatus(ResponseNew, FORBIDDEN), "Access-Control-Allow-Origin", "x")),
      Err([kind |-> "Internal", by |-> "next"]) }

MwIdle ==
    /\ mw = None /\ mw_pc = "idle" /\ mw_in = None /\ mw_local = None
    /\ next_reqs = <<>> /\ next_ret = None /\ mw_result = None /\ stdout = <<>>

(* ======================= app.rs: App::handle ========================== *)
BAD_REQUEST == 400
NOT_FOUND == 404
INTERNAL_SERVER_ERROR == 500

\* response.rs:39-43
Text(r, text) ==
    [r EXCEPT !.body = text, !.headers = MapInsert(r.headers, "Content-Type", "text/plain")]

\* str::starts_with
StartsWith(str, prefix) ==
    Len(prefix) <= Len(str) /\ SubSeq(str, 1, Len(prefix)) = prefix

\* app.rs:51  the literal "/static"
StaticLiteral == <<"/", "s", "t", "a", "t", "i", "c">>

\* an AppError value: the variant and its message
AppErr(variant, msg) == [kind |-> variant, msg |-> msg]

\* downcast_ref::<AppError>() succeeds
IsAppError(e) == "msg" \in DOMAIN e

\* to_string() of an error that is no AppError
ForeignText(e) == <<"failed: ", e.by>>

\* every error becomes AppError::Internal
FromAlwaysInternal(e) ==
    AppErr("Internal", IF IsAppError(e) THEN e.msg ELSE ForeignText(e))

\* error.rs:34-44  From<Box<dyn Error>> for AppError
From(e) == IF IsAppError(e) THEN e ELSE AppErr("Internal", ForeignText(e))

\* every variant answered as an internal error
StatusOfInternal(err) == INTERNAL_SERVER_ERROR

\* error.rs:83-90
StatusOf(err) ==
    CASE err.kind = "NotFound" -> NOT_FOUND
      [] err.kind = "Internal" -> INTERNAL_SERVER_ERROR
      [] err.kind = "BadRequest" -> BAD_REQUEST
      [] err.kind = "Unauthorized" -> UNAUTHORIZED
      [] err.kind = "Forbidden" -> FORBIDDEN

\* error.rs:81-100  AppError::into_response: the error page under the status
IntoResponse(err) ==
    Ok([status |-> StatusOf(err),
        headers |-> MapInsert(EmptyMap, "Content-Type", "text/html"),
        body |-> err.msg])

\* what the installed error handler may return for err
ErrorHandlerResults(handler, err) ==
    IF handler = "default"
    THEN {IntoResponse(err)}
    ELSE { Ok(Text(WithStatus(ResponseNew, INTERNAL_SERVER_ERROR), "custom")),
           Err([kind |-> "Internal", by |-> "error_handler"]) }

\* static_files.rs:19-56  serve_file: what the file system makes of the path
ServeFileResults ==
    { Ok(WithStatus(WithHeader(ResponseNew, "Cache-Control", "public, max-age=3600"), OK)),
      Ok(Text(WithStatus(ResponseNew, NOT_FOUND), "File not found")),
      Ok(Text(WithStatus(ResponseNew, FORBIDDEN), "Forbidden")),
      Err([kind |-> "Io", by |-> "canonicalize"]) }

\* static_files.rs:61-71  StaticFiles::handle
StaticFilesResults(static_handler, path) ==
    IF StartsWith(path, static_handler.prefix)
    THEN ServeFileResults
    ELSE {Ok(Text(WithStatus(ResponseNew, NOT_FOUND), "Not Found"))}

\* app.rs:50-51
GoesToStatic(a, path) ==
    a.static_handler.some /\ StartsWith(path, StaticLiteral)

\* app.rs:14-22  App::new()
AppNew ==
    /\ app = [static_handler |-> None, error_handler |-> "default"]
    /\ app_pc = "build" /\ app_in = None /\ app_via = ""
    /\ eh_calls = <<>> /\ eh_ret = None /\ app_result = None

\* app.rs:29-32
AppStaticFiles(dir, prefix) ==
    /\ app_pc = "build"
    /\ app' = [app EXCEPT !.static_handler = Some([dir |-> dir, prefix |-> prefix])]
    /\ UNCHANGED <<app_pc, app_in, app_via, eh_calls, eh_ret, app_result,
                   matchVars, routerVars, callVars, extVars>>

\* app.rs:40-44
AppErrorHandler(handler) ==
    /\ app_pc = "build"
    /\ app' = [app EXCEPT !.error_handler = handler]
    /\ UNCHANGED <<app_pc, app_in, app_via, eh_calls, eh_ret, app_result,
                   matchVars, routerVars, callVars, extVars>>

\* app.rs:49-56  App::handle up to the static handler's answer or the call
\* of router.handle_request
AppHandle(r) ==
    /\ app_pc \in {"build", "done"}
    /\ app_in' = Some(r)
    /\ eh_calls' = <<>> /\ eh_ret' = None
    /\ IF GoesToStatic(app, r.path)
       THEN /\ \E res \in StaticFilesResults(app.static_handler.v, r.path) :
                  app_result' = Some(res)
            /\ app_via' = "static"
            /\ app_pc' = "done"
            /\ UNCHANGED <<matchVars, routerVars, callVars, extVars>>
       ELSE /\ HandleRequest(r)
            /\ app_result' = None
            /\ app_via' = "router"
            /\ app_pc' = "router"
    /\ UNCHANGED app

\* app.rs:56-62: the router has returned
AppRouterReturns ==
    /\ app_pc = "router" /\ pc = "done"
    /\ IF result.v.ok
       THEN /\ app_result' = result
            /\ UNCHANGED <<eh_calls, eh_ret>>
       ELSE LET app_error == From(result.v.v)
            IN  /\ eh_calls' = Append(eh_calls, app_error)
                /\ \E res \in ErrorHandlerResults(app.error_handler, app_error) :
                       eh_ret' = Some(res) /\ app_result' = Some(res)
    /\ app_pc' = "done"
    /\ UNCHANGED <<app, app_in, app_via, matchVars, routerVars, callVars, extVars>>

\* handler.rs:19-21: the endpoint returns an AppError
HandlerFails(e) ==
    /\ pc = "chain" /\ cur.some /\ cur.v.type = "fn"
    /\ trace' = Append(trace, HandlerEvent(cur.v.id))
    /\ result' = Some(Err(e))
    /\ cur' = None
    /\ UNCHANGED <<pc, inreq, req, selected, stack, routerVars, matchVars, extVars, appVars>>

PathStaticF == <<"/", "s", "t", "a", "t", "i", "c", "/", "f">>
PathAssetsF == <<"/", "a", "s", "s", "e", "t", "s", "/", "f">>
PrefixAssets == <<"/", "a", "s", "s", "e", "t", "s">>
PrefixA == <<"/", "a">>

AppRequests ==
    [method : {"GET", "OPTIONS"}, path : {PathAF, PathB, PathStaticF, PathAssetsF},
     params : {EmptyMap}]

HandlerErrors ==
    { AppErr("BadRequest", <<"bad">>), AppErr("Forbidden", <<"no">>),
      AppErr("Unauthorized", <<"who">>), AppErr("Internal", <<"oops">>) }

RateIdle ==
    /\ limiter = None /\ requests = EmptyMap
    /\ clock = 0 /\ tasks = <<>> /\ served = <<>>
    /\ mutex = None

(* ------------- stateless, deterministic middleware and handlers ------- *)
\* middleware/mod.rs:8-12, handler.rs:9-11: what each registered middleware
\* and handler does is fixed by the policy: the middleware stop_at answers
\* itself or fails instead of forwarding, the handlers in `failing` return Err
Forwarding == [stop_at |-> 0, stop_with |-> "short", failing |-> {}]

Policies ==
    { Forwarding,
      [stop_at |-> 0, stop_with |-> "short", failing |-> {1}],
      [stop_at |-> 2, stop_with |-> "short", failing |-> {}],
      [stop_at |-> 1, stop_with |-> "fail", failing |-> {2}] }

Forwards == AtMiddleware /\ policy.stop_at # cur.v.middleware
Stops(how) == AtMiddleware /\ policy.stop_at = cur.v.middleware /\ policy.stop_with = how
Succeeds == pc = "chain" /\ cur.some /\ cur.v.type = "fn" /\ cur.v.id \notin policy.failing
Fails == pc = "chain" /\ cur.some /\ cur.v.type = "fn" /\ cur.v.id \in policy.failing

Outcome ==
    [request |-> inreq, selected |-> selected, params |-> req.params,
     result |-> result, trace |-> trace, others |-> FALSE]

\* the outcome of one finished GET dispatch is kept for comparison
Remember ==
    /\ pc = "done" /\ first = None
    /\ inreq.method = "GET"
    /\ first' = Some(Outcome)
    /\ UNCHANGED <<policy, matchVars, routerVars, callVars, rateVars, mwVars, appVars, connVars, lateVars>>

\* a different request has been dispatched since
NoteOther ==
    /\ pc = "done" /\ first.some /\ ~first.v.others
    /\ inreq # first.v.request
    /\ first' = Some([first.v EXCEPT !.others = TRUE])
    /\ UNCHANGED <<policy, matchVars, routerVars, callVars, rateVars, mwVars, appVars, connVars, lateVars>>

\* requests as Request::from_hyper builds them (request.rs:33: no params)
FreshRequests == { r \in Requests : r.params = EmptyMap }

RepeatIdle == policy = Forwarding /\ first = None

(* ------------- two connections served by the same Router -------------- *)
\* router.rs:149-168: the state of one call of handle_request: its request
\* and locals, and where it is in its chain
Context ==
    [pc |-> pc, inreq |-> inreq, req |-> req, selected |-> selected,
     cur |-> cur, stack |-> stack, result |-> result, trace |-> trace]

\* server.rs:25-37: a connection on which no request has arrived yet
IdleContext ==
    [pc |-> "build", inreq |-> None, req |-> None, selected |-> 0,
     cur |-> None, stack |-> <<>>, result |-> None, trace |-> <<>>]

\* the request kept in the Router and so shared by the calls
ResumedSharedReq(own, last) == [own EXCEPT !.req = last.req]

\* router.rs:149  handle_request(&self, mut req: Request): the request and
\* every local belong to the call; a resumed call finds them as it left them
Resumed(own, last) == own

\* the runtime suspends the running call at an await and resumes the other
Switch ==
    /\ pc # "build"
    /\ parked' = Context
    /\ LET c == Resumed(parked, Context) IN
       /\ pc' = c.pc /\ inreq' = c.inreq /\ req' = c.req /\ selected' = c.selected
       /\ cur' = c.cur /\ stack' = c.stack /\ result' = c.result /\ trace' = c.trace
    /\ UNCHANGED <<routerVars, matchVars, rateVars, mwVars, repeatVars, appVars, lateVars>>

ConnIdle == parked = IdleContext

(* ================= session.rs: SessionMiddleware ===================== *)
MaxSessions == 2       \* Session::new is called at most this many times

\* session.rs:17-25  Session::new: a fresh id, no data
SessionNew(n) == [id |-> n, data |-> EmptyMap]

\* session.rs:31-34  Session::set(key, value)
SessionSet(session, key, value) ==
    [session EXCEPT !.data = [k \in DOMAIN session.data \cup {key} |->
                                  IF k = key THEN value ELSE session.data[k]]]

\* session.rs:142-149: the stored session of the cookie's id unless absent
\* or expired
Loaded(table, session_id, expired) ==
    IF session_id.some /\ session_id.v \in DOMAIN table /\ ~expired
    THEN Some(table[session_id.v]) ELSE None

\* session.rs:73-74  sessions.insert(session.id.clone(), session)
StoreSet(table, session) ==
    [k \in DOMAIN table \cup {session.id} |->
         IF k = session.id THEN session ELSE table[k]]

\* session.rs:168  self.store.set(session): `session` is the call's local,
\* of which the request got a clone (session.rs:152)
SavedCopy(local, inner) == local

\* session.rs:120-155  SessionMiddleware::handle up to next.handle(req)
SessionHandle(session_id, expired) ==
    /\ sm_pc \in {"idle", "done"}
    /\ LET found == Loaded(sessions, session_id, expired) IN
       /\ ~found.some => uuids < MaxSessions
       /\ uuids' = IF found.some THEN uuids ELSE uuids + 1
       /\ sm_session' = IF found.some THEN found.v ELSE SessionNew(uuids + 1)
       /\ sm_req' = sm_session'
    /\ sm_pc' = "next"
    /\ sm_result' = None
    /\ UNCHANGED <<sessions, notSessVars>>

\* the route handler calls req.session.set(key, value)
HandlerSessionSet(key, value) ==
    /\ sm_pc = "next"
    /\ sm_req' = SessionSet(sm_req, key, value)
    /\ UNCHANGED <<sessions, uuids, sm_pc, sm_session, sm_result, notSessVars>>

\* session.rs:155-170: next has returned; on Ok the cookie is set and the
\* session saved, on Err `?` returns at once
SessionResume(ok) ==
    /\ sm_pc = "next"
    /\ IF ok
       THEN /\ sessions' = StoreSet(sessions, SavedCopy(sm_session, sm_req))
            /\ sm_result' = Some(Ok([set_cookie |-> sm_session.id]))
       ELSE /\ sessions' = sessions
            /\ sm_result' = Some(Err([kind |-> "Internal", by |-> "next"]))
    /\ sm_pc' = "done"
    /\ UNCHANGED <<uuids, sm_session, sm_req, notSessVars>>

SessIdle ==
    /\ sessions = EmptyMap /\ uuids = 0
    /\ sm_pc = "idle" /\ sm_session = None /\ sm_req = None /\ sm_result = None

(* ================= metrics.rs: Metrics, MetricsMiddleware ============= *)
MaxCalls == 2          \* calls of MetricsMiddleware::handle in one behaviour
MaxExports == 1        \* calls of Metrics::export in one behaviour

\* metrics.rs:55-59  start = Instant::now(); *counter += 1 under its mutex;
\* then next.handle(req) is awaited
MetricsEnter ==
    /\ Len(mt_calls) < MaxCalls
    /\ request_counter' = request_counter + 1
    /\ mt_calls' = Append(mt_calls, [pc |-> "next", start |-> clock, result |-> None])
    /\ UNCHANGED <<request_duration, error_counter, ex_pc, ex_local, reports, notMetricsVars>>

\* the duration recorded only when next answered Ok
MetricsResumeOkOnly(t, res) ==
    /\ mt_calls[t].pc = "next"
    /\ request_duration' = IF res.ok
                            THEN Append(request_duration, DurationSince(clock, mt_calls[t].start))
                            ELSE request_duration
    /\ mt_calls' = [mt_calls EXCEPT ![t].pc = "pushed", ![t].result = Some(res)]
    /\ UNCHANGED <<request_counter, error_counter, ex_pc, ex_local, reports, notMetricsVars>>

\* metrics.rs:61-67: next has returned `res`; the elapsed time is pushed
\* under the mutex of request_duration
MetricsResume(t, res) ==
    /\ mt_calls[t].pc = "next"
    /\ request_duration' = Append(request_duration, DurationSince(clock, mt_calls[t].start))
    /\ mt_calls' = [mt_calls EXCEPT ![t].pc = "pushed", ![t].result = Some(res)]
    /\ UNCHANGED <<request_counter, error_counter, ex_pc, ex_local, reports, notMetricsVars>>

\* metrics.rs:69-74: an Err is counted under the mutex of error_counter, and
\* the result returned
MetricsFinish(t) ==
    /\ mt_calls[t].pc = "pushed"
    /\ error_counter' = IF mt_calls[t].result.v.ok THEN error_counter ELSE error_counter + 1
    /\ mt_calls' = [mt_calls EXCEPT ![t].pc = "done"]
    /\ UNCHANGED <<request_counter, request_duration, ex_pc, ex_local, reports, notMetricsVars>>

\* metrics.rs:61: the future is dropped while it awaits next.handle(req)
MetricsCancel(t) ==
    /\ mt_calls[t].pc = "next"
    /\ mt_calls' = [mt_calls EXCEPT ![t].pc = "cancelled"]
    /\ UNCHANGED <<request_counter, request_duration, error_counter, ex_pc, ex_local,
                   reports, notMetricsVars>>

\* metrics.rs:26  let request_count = *self.request_counter.lock().unwrap()
ExportReadRequests ==
    /\ ex_pc = "idle" /\ Len(reports) < MaxExports
    /\ ex_local' = [request_count |-> request_counter, error_count |-> 0]
    /\ ex_pc' = "requests"
    /\ UNCHANGED <<request_counter, request_duration, error_counter, mt_calls, reports,
                   notMetricsVars>>

\* metrics.rs:27  let error_count = *self.error_counter.lock().unwrap()
ExportReadErrors ==
    /\ ex_pc = "requests"
    /\ ex_local' = [ex_local EXCEPT !.error_count = error_counter]
    /\ ex_pc' = "errors"
    /\ UNCHANGED <<request_counter, request_duration, error_counter, mt_calls, reports,
                   notMetricsVars>>

RECURSIVE Sum(_)
Sum(seq) == IF seq = <<>> THEN 0 ELSE Head(seq) + Sum(Tail(seq))

\* metrics.rs:29  avg_duration, as the pair <<sum, count>>; <<0, 1>> is 0.0
AvgDuration(durations) ==
    IF durations = <<>> THEN <<0, 1>> ELSE <<Sum(durations), Len(durations)>>

\* metrics.rs:28-34: the durations are read under their mutex and the report
\* is formatted
ExportReport ==
    /\ ex_pc = "errors"
    /\ reports' = Append(reports, [http_requests_total |-> ex_local.request_count,
                                   http_errors_total |-> ex_local.error_count,
                                   http_request_duration_avg |-> AvgDuration(request_duration)])
    /\ ex_pc' = "idle"
    /\ UNCHANGED <<request_counter, request_duration, error_counter, mt_calls, ex_local,
                   notMetricsVars>>

\* metrics.rs:17-23  Metrics::new
MetricsNew ==
    /\ request_counter = 0 /\ request_duration = <<>> /\ error_counter = 0
    /\ mt_calls = <<>>
    /\ ex_pc = "idle" /\ ex_local = [request_count |-> 0, error_count |-> 0]
    /\ reports = <<>>

(* ========================= config/mod.rs ============================= *)
MaxConfigCalls == 3

\* config/mod.rs:48-75  Config::default, of which the model keeps server.host
DefaultConfig == [host |-> "127.0.0.1"]

\* config/mod.rs:78-135  Config::load(None): the default, with server.host
\* taken from RUSTNEXT_HOST when the environment has it
ConfigLoad(env) == IF env.some THEN [DefaultConfig EXCEPT !.host = env.v] ELSE DefaultConfig

\* once_cell OnceCell::set: Err when the cell is full, and the cell keeps
\* what it has
CellSetOverwrites(cell, value) == Some(value)

CellSet(cell, value) == IF cell.some THEN cell ELSE Some(value)

\* config/mod.rs:147-151  get_config, called in an environment env
GetConfig(env) ==
    /\ Len(config_calls) < MaxConfigCalls
    /\ GLOBAL_CONFIG' = CellSet(GLOBAL_CONFIG, ConfigLoad(env))
    /\ config_calls' = Append(config_calls,
            [op |-> "get_config", arg |-> ConfigLoad(env), before |-> GLOBAL_CONFIG,
             ret |-> GLOBAL_CONFIG'.v])
    /\ UNCHANGED notConfigVars

\* config/mod.rs:153-157  init_config
InitConfig(config) ==
    /\ Len(config_calls) < MaxConfigCalls
    /\ GLOBAL_CONFIG' = CellSet(GLOBAL_CONFIG, config)
    /\ config_calls' = Append(config_calls,
            [op |-> "init_config", arg |-> config, before |-> GLOBAL_CONFIG,
             ret |-> GLOBAL_CONFIG'.v])
    /\ UNCHANGED notConfigVars

\* config/mod.rs:145  OnceCell::new()
ConfigNew == GLOBAL_CONFIG = None /\ config_calls = <<>>

(* =========================== api/mod.rs ============================== *)
\* api/mod.rs:18-30  ApiRoute::new; api/mod.rs:33-67 path_to_regex is the
\* loop of router.rs:41-75, statement for statement
ApiRouteNew(method, path, handler) ==
    LET c == path_to_regex(path) IN
    [path |-> path, method |-> method, regex |-> RegexNew(c.regex_str),
     param_names |-> c.param_names, handler |-> handler]

\* HashMap::extend: the entries of new, over those of old
MapExtend(old, new) ==
    [x \in DOMAIN old \cup DOMAIN new |-> IF x \in DOMAIN new THEN new[x] ELSE old[x]]

\* the method test of api/mod.rs:170 left out
ApiRouteMatchesAnyMethod(r, method, path) ==
    LET captures == RegexCaptures(r.regex.v, path) IN
    IF captures.some
    THEN Some(CollectParams(r.param_names, captures.v, 1, EmptyMap))
    ELSE None

\* api/mod.rs:170-178  the method test, regex.captures and the params map
ApiRouteMatches(r, method, path) ==
    IF r.method = method
    THEN LET captures == RegexCaptures(r.regex.v, path) IN
         IF captures.some
         THEN Some(CollectParams(r.param_names, captures.v, 1, EmptyMap))
         ELSE None
    ELSE None

RECURSIVE ApiFindRoute(_, _, _, _)
\* api/mod.rs:169-171  for route in &self.routes: the first one that matches
ApiFindRoute(rs, method, path, i) ==
    IF i > Len(rs) THEN 0
    ELSE IF ApiRouteMatches(rs[i], method, path).some THEN i
    ELSE ApiFindRoute(rs, method, path, i + 1)

\* api/mod.rs:158-163  add_route
ApiAddRoute(method, path) ==
    /\ Len(api_routes) < MaxRoutes
    /\ api_routes' = Append(api_routes, ApiRouteNew(method, path, RouteHandler(Len(api_routes) + 1)))
    /\ UNCHANGED <<api_pc, api_in, api_req, api_selected, api_response, notApiVars>>

\* api/mod.rs:165-210  handle_request, the ApiHandler answering Ok (ok) or
\* Err: Some(response) when a route matches, None when none does
ApiHandleRequest(r, ok) ==
    /\ api_in' = r
    /\ LET i == ApiFindRoute(api_routes, r.method, r.path, 1) IN
       /\ api_selected' = i
       /\ IF i # 0
          THEN /\ api_req' = [r EXCEPT !.params =
                       MapExtend(r.params, ApiRouteMatches(api_routes[i], r.method, r.path).v)]
               /\ api_response' = Some([status |-> IF ok THEN OK ELSE BAD_REQUEST])
          ELSE /\ api_req' = r
               /\ api_response' = None
    /\ api_pc' = "done"
    /\ UNCHANGED <<api_routes, notApiVars>>

\* api/mod.rs:152-156  ApiRegistry::new
ApiNew ==
    /\ api_routes = <<>> /\ api_pc = "idle"
    /\ api_in = None /\ api_req = None /\ api_selected = 0 /\ api_response = None

(* ========================== assets/mod.rs ============================ *)
MaxAssetCalls == 3

\* request paths: two files, a name that is no file, and one that leaves
\* root_dir
AssetCss == "/site.css"
AssetPng == "/logo.png"
AssetMissing == "/none.js"
AssetOutside == "/../secret"
AssetPaths == {AssetCss, AssetPng, AssetMissing, AssetOutside}

\* assets/mod.rs:129-143  get_content_type, by the extension
GetContentType(path) ==
    CASE path = AssetCss -> "text/css"
      [] path = AssetPng -> "image/png"
      [] path = AssetMissing -> "application/javascript"
      [] OTHER -> "application/octet-stream"

\* assets/mod.rs:101-127  optimize_content: css and js are minified
OptimizeContent(content, content_type) ==
    IF content_type \in {"text/css", "application/javascript", "text/javascript"}
    THEN [minified |-> content] ELSE [raw |-> content]

\* assets/mod.rs:86-91  the CachedAsset of a file's content
CachedAssetOf(path, content) ==
    LET processed == OptimizeContent(content, GetContentType(path)) IN
    [content |-> processed, content_type |-> GetContentType(path), etag |-> [md5 |-> processed]]

\* assets/mod.rs:94-98 and 70-74  the response built from an asset
AssetResponse(asset) ==
    [status |-> OK, content_type |-> asset.content_type, etag |-> asset.etag,
     body |-> asset.content]

\* assets/mod.rs:48-99  serve_asset on a manager whose cache is c:
\* the response and the cache the manager has afterwards
ServeAssetOn(c, path) ==
    IF path = AssetOutside
    THEN [response |-> [status |-> FORBIDDEN], cache |-> c, hit |-> FALSE]
    ELSE IF path \notin DOMAIN files
    THEN [response |-> [status |-> NOT_FOUND], cache |-> c, hit |-> FALSE]
    ELSE IF path \in DOMAIN c
    THEN [response |-> AssetResponse(c[path]), cache |-> c, hit |-> TRUE]
    ELSE LET asset == CachedAssetOf(path, files[path]) IN
         [response |-> AssetResponse(asset), cache |-> MapInsert(c, path, asset), hit |-> FALSE]

\* assets/mod.rs:155-168  Clone for AssetManager: the copy has a cache of
\* its own
AssetClone(c) == c

\* assets/mod.rs:48-99  serve_asset called on the manager itself (&mut self)
ServeAsset(path) ==
    /\ Len(asset_calls) < MaxAssetCalls
    /\ LET outcome == ServeAssetOn(cache, path) IN
       /\ cache' = outcome.cache
       /\ asset_calls' = Append(asset_calls,
              [via |-> "serve_asset", path |-> path, hit |-> outcome.hit,
               response |-> outcome.response, inserted |-> path \in DOMAIN outcome.cache \ DOMAIN cache])
    /\ UNCHANGED <<files, notAssetVars>>

\* assets/mod.rs:146-153  Handler::handle: serve_asset runs on a clone of
\* the manager, and the clone is dropped when the call returns
AssetHandle(path) ==
    /\ Len(asset_calls) < MaxAssetCalls
    /\ LET manager == AssetClone(cache)
           outcome == ServeAssetOn(manager, path) IN
       asset_calls' = Append(asset_calls,
              [via |-> "handle", path |-> path, hit |-> outcome.hit,
               response |-> outcome.response, inserted |-> path \in DOMAIN outcome.cache \ DOMAIN manager])
    /\ UNCHANGED <<files, cache, notAssetVars>>

\* a file under root_dir is rewritten
FileWrite(path, content) ==
    /\ path \in DOMAIN files /\ files[path] # content
    /\ files' = [files EXCEPT ![path] = content]
    /\ UNCHANGED <<cache, asset_calls, notAssetVars>>

\* assets/mod.rs:40-46  AssetManager::new over a directory with two files
AssetNew ==
    /\ files = [p \in {AssetCss, AssetPng} |-> "v1"]
    /\ cache = EmptyMap /\ asset_calls = <<>>

LaterIdle == SessIdle /\ MetricsNew /\ ConfigNew /\ ApiNew /\ AssetNew

ExtIdle == RateIdle /\ MwIdle /\ RepeatIdle /\ ConnIdle /\ LaterIdle

Init == RouterNew /\ CallIdle /\ MatchIdle /\ ExtIdle /\ AppNew

Next ==
    \/ \E t \in RouteTemplates : Get(t)
    \/ \E t \in RouteTemplates : Post(t)
    \/ \E t \in RouteTemplates : Put(t)
    \/ \E t \in RouteTemplates : Delete(t)
    \/ UseMiddleware
    \/ \E r \in Requests : HandleRequest(r) /\ UNCHANGED appVars
    \/ MiddlewareForward
    \/ MiddlewareShortCircuit
    \/ MiddlewareFail
    \/ \E ok \in BOOLEAN : HandlerHandle(ok)
    \/ MiddlewareReturn
    \/ Return

Spec == Init /\ [][Next]_vars

InitMatch == MatchIdle /\ RouterNew /\ CallIdle /\ ExtIdle /\ AppNew

NextMatch ==
    \/ route = None /\ \E t \in Templates : NewRoute(t)
    \/ route.some /\ route.v.regex.some /\ match_method = "" /\
           \E m \in {"GET", "POST"} : \E p \in CandidatePaths : Matches(m, p)

SpecMatch == InitMatch /\ [][NextMatch]_vars

NoneInFlight == \A t \in 1 .. Len(tasks) : tasks[t].pc = "done"

InitRate == RateIdle /\ MwIdle /\ RepeatIdle /\ ConnIdle /\ LaterIdle /\ AppNew /\ MatchIdle /\ RouterNew /\ CallIdle

\* one call of RateLimiter::handle at a time
NextRate ==
    \/ \E m \in 0 .. MaxLimit : \E w \in 0 .. MaxWindow : RateLimiterNew(m, w)
    \/ Tick
    \/ NoneInFlight /\ \E h \in HeaderChoices : RateEnter(h)
    \/ \E t \in 1 .. Len(tasks) : RateLocked(t)
    \/ \E t \in 1 .. Len(tasks) : RateReject(t)
    \/ \E t \in 1 .. Len(tasks) : RateForward(t)
    \/ \E t \in 1 .. Len(tasks) : \E res \in InnerResults : RateNextReturn(t, res)

SpecRate == InitRate /\ [][NextRate]_vars

\* a RateLimiter that has counted u32::MAX - 1 or u32::MAX requests of one
\* client in the window that began at 0
InitWrap ==
    /\ \E m \in 0 .. MaxLimit : \E w \in 1 .. MaxWindow + 1 :
           limiter = Some([max_requests |-> U32Of(m), window_seconds |-> w])
    /\ \E lo \in {HalfModulus - 2, HalfModulus - 1} :
           requests = [k \in {Addr1} |-> <<<<HalfModulus - 1, lo>>, 0>>]
    /\ clock = 0 /\ tasks = <<>> /\ served = <<>> /\ mutex = None
    /\ MwIdle /\ RepeatIdle /\ ConnIdle /\ LaterIdle /\ AppNew /\ MatchIdle /\ RouterNew /\ CallIdle

\* further calls of that client, one at a time; the build decides what the
\* increment does at u32::MAX
NextWrap ==
    \/ Tick
    \/ /\ \A t \in 1 .. Len(tasks) : tasks[t].pc \in {"done", "panicked"}
       /\ RateEnter([n \in {"x-forwarded-for"} |-> Addr1])
    \/ \E t \in 1 .. Len(tasks) : mutex = None /\ RateLocked(t)
    \/ \E t \in 1 .. Len(tasks) : RateOverflowPanics(t)
    \/ \E t \in 1 .. Len(tasks) : RateLockPoisoned(t)
    \/ \E t \in 1 .. Len(tasks) : RateReject(t)
    \/ \E t \in 1 .. Len(tasks) : RateForward(t)
    \/ \E t \in 1 .. Len(tasks) : \E res \in InnerResults : RateNextReturn(t, res)

SpecWrap == InitWrap /\ [][NextWrap]_vars

\* the client whose calls run concurrently, and another client
SameClient == [n \in {"x-forwarded-for"} |-> Addr1]
OtherClient == [n \in {"x-real-ip"} |-> Addr2]

\* calls of RateLimiter::handle on the multi-threaded runtime: any call in
\* flight takes the next step
NextRateConc ==
    \/ \E m \in {0, MaxLimit} : \E w \in {0, MaxWindow} : RateLimiterNew(m, w)
    \/ limiter.some /\ Tick
    \/ RateEnter(SameClient)
    \/ tasks = <<>> /\ RateEnter(OtherClient)
    \/ \E t \in 1 .. Len(tasks) : RateAcquire(t)
    \/ \E t \in 1 .. Len(tasks) : RateEntry(t)
    \/ \E t \in 1 .. Len(tasks) : RateCount(t)
    \/ \E t \in 1 .. Len(tasks) : RateRelease(t)
    \/ \E t \in 1 .. Len(tasks) : RateReject(t)
    \/ \E t \in 1 .. Len(tasks) : RateForward(t)
    \/ \E t \in 1 .. Len(tasks) : RateNextReturn(t, Ok(WithStatus(ResponseNew, OK)))
    \/ \E t \in 1 .. Len(tasks) : RateCancel(t)

SpecRateConc == InitRate /\ [][NextRateConc]_vars

InitMw == MwIdle /\ RateIdle /\ RepeatIdle /\ ConnIdle /\ LaterIdle /\ AppNew /\ MatchIdle /\ RouterNew /\ CallIdle

\* one middleware is built, then called with a stub for next
NextMw ==
    \/ AuthGuardNew
    \/ \E role \in {"admin", "editor"} : RequireRole(role)
    \/ RedirectTo("/login")
    \/ CorsNew
    \/ AllowOrigin("https://a.example")
    \/ LoggerNew
    \/ \E r \in MwRequests : AuthGuardHandle(r)
    \/ \E res \in NextResults : AuthGuardResume(res)
    \/ \E r \in MwRequests : CorsHandle(r)
    \/ \E res \in NextResults : CorsResume(res)
    \/ \E r \in MwRequests : LoggerHandle(r)
    \/ \E res \in NextResults : LoggerResume(res)
    \/ mw_pc = "next" /\ Tick

SpecMw == InitMw /\ [][NextMw]_vars

\* the Router, one built-in middleware under a stub next, or the RateLimiter:
\* whichever is used first is the one the behaviour is about
NextPass ==
    \/ ExtIdle /\ \E t \in RouteTemplates : Get(t)
    \/ ExtIdle /\ \E t \in RouteTemplates : Post(t)
    \/ ExtIdle /\ UseMiddleware
    \/ ExtIdle /\ \E r \in Requests : HandleRequest(r) /\ UNCHANGED appVars
    \/ MiddlewareForward
    \/ MiddlewareShortCircuit
    \/ MiddlewareFail
    \/ \E ok \in BOOLEAN : HandlerHandle(ok)
    \/ MiddlewareReturn
    \/ Return
    \/ RouterNew /\ CallIdle /\ RateIdle /\ RepeatIdle /\ NextMw
    \/ RouterNew /\ CallIdle /\ MwIdle /\ RepeatIdle /\ NextRate

SpecPass == Init /\ [][NextPass]_vars

InitRepeat ==
    /\ RouterNew /\ CallIdle /\ MatchIdle /\ RateIdle /\ MwIdle /\ AppNew
    /\ policy \in Policies /\ first = None
    /\ ConnIdle /\ LaterIdle

\* a Router is built, then requests are dispatched one after the other to
\* middleware and handlers that do what the policy says
NextRepeat ==
    \/ \E t \in RouteTemplates : Get(t)
    \/ \E t \in RouteTemplates : Post(t)
    \/ UseMiddleware
    \/ \E r \in FreshRequests : HandleRequest(r) /\ UNCHANGED appVars
    \/ Forwards /\ MiddlewareForward
    \/ Stops("short") /\ MiddlewareShortCircuit
    \/ Stops("fail") /\ MiddlewareFail
    \/ Succeeds /\ HandlerHandle(TRUE)
    \/ Fails /\ HandlerHandle(FALSE)
    \/ MiddlewareReturn
    \/ Return
    \/ Remember
    \/ NoteOther

SpecRepeat == InitRepeat /\ [][NextRepeat]_vars

\* router.rs:109-147: a Router with two GET routes and two middleware, built
\* before the server starts
ServingRouter ==
    /\ routes = <<RouteNew("GET", TplAX, RouteHandler(1)),
                  RouteNew("GET", TplAF, RouteHandler(2))>>
    /\ middleware = <<1, 2>>

InitConn == ServingRouter /\ CallIdle /\ MatchIdle /\ ExtIdle /\ AppNew

\* server.rs:25-37: each connection calls handle_request on the shared
\* Router; the calls take their steps in any order
NextConn ==
    \/ \E r \in FreshRequests : HandleRequest(r) /\ UNCHANGED appVars
    \/ MiddlewareForward
    \/ MiddlewareShortCircuit
    \/ MiddlewareFail
    \/ \E ok \in BOOLEAN : HandlerHandle(ok)
    \/ MiddlewareReturn
    \/ Return
    \/ Switch

SpecConn == InitConn /\ [][NextConn]_vars

\* the next step of call t of RateLimiter::handle, next included
RateStep(t) ==
    /\ t \in 1 .. Len(tasks)
    /\ \/ RateAcquire(t)
       \/ RateEntry(t)
       \/ RateCount(t)
       \/ RateRelease(t)
       \/ RateReject(t)
       \/ RateForward(t)
       \/ \E res \in InnerResults : RateNextReturn(t, res)

\* a step of the chain of the call of handle_request
ChainStep ==
    \/ MiddlewareForward
    \/ MiddlewareShortCircuit
    \/ MiddlewareFail
    \/ \E ok \in BOOLEAN : HandlerHandle(ok)
    \/ MiddlewareReturn
    \/ Return

\* requests are dispatched to a Router, or calls of one client run
\* concurrently through a RateLimiter, none of them abandoned
NextLive ==
    \/ RateIdle /\ \E r \in FreshRequests : HandleRequest(r) /\ UNCHANGED appVars
    \/ ChainStep
    \/ pc = "build" /\ \E m \in 0 .. MaxLimit : RateLimiterNew(m, MaxWindow)
    \/ \E h \in {SameClient, OtherClient} : RateEnter(h)
    \/ \E t \in 1 .. MaxArrivals : RateStep(t)

\* the runtime keeps polling every call that can take a step: a middleware,
\* a handler and next return, and a thread waiting for the mutex gets it
\* once it stays free
FairLive ==
    /\ WF_vars(ChainStep)
    /\ \A t \in 1 .. MaxArrivals : WF_vars(RateStep(t))

SpecLive == InitConn /\ [][NextLive]_vars /\ FairLive

\* the cookies a request may present: none, or the id of a session
SessionCookies == {None} \cup { Some(n) : n \in 1 .. MaxSessions }

\* requests pass through SessionMiddleware one after the other; the route
\* handler may write into the session of its request
NextSession ==
    \/ \E c \in SessionCookies : \E expired \in BOOLEAN : SessionHandle(c, expired)
    \/ \E key \in {"user", "cart"} : \E value \in {"1", "2"} : HandlerSessionSet(key, value)
    \/ \E ok \in BOOLEAN : SessionResume(ok)

SpecSession == Init /\ [][NextSession]_vars

\* calls of MetricsMiddleware::handle and an export run concurrently; time
\* passes while the first call awaits
NextMetrics ==
    \/ MetricsEnter
    \/ \E t \in 1 .. Len(mt_calls) : \E res \in InnerResults : MetricsResume(t, res)
    \/ \E t \in 1 .. Len(mt_calls) : MetricsFinish(t)
    \/ \E t \in 1 .. Len(mt_calls) : MetricsCancel(t)
    \/ ExportReadRequests
    \/ ExportReadErrors
    \/ ExportReport
    \/ (Len(mt_calls) = 1 /\ mt_calls[1].pc = "next") /\ Tick

SpecMetrics == Init /\ [][NextMetrics]_vars

\* what RUSTNEXT_HOST may be when get_config runs, and the configurations
\* handed to init_config
Environments == {None, Some("0.0.0.0")}

Configs == {[host |-> "127.0.0.1"], [host |-> "0.0.0.0"], [host |-> "10.0.0.1"]}

NextConfig ==
    \/ \E env \in Environments : GetConfig(env)
    \/ \E config \in Configs : InitConfig(config)

SpecConfig == Init /\ [][NextConfig]_vars

\* the requests given to both
ApiRequests == { r \in Requests : r.path \in {PathAF, PathB} }

\* a Router and an ApiRegistry are given routes, the Router serves one
\* request and the ApiRegistry is then given the request the Router had
NextApi ==
    \/ \E t \in RouteTemplates : Get(t)
    \/ \E t \in RouteTemplates : Post(t)
    \/ \E m \in {"GET", "POST"} : \E t \in RouteTemplates : pc = "build" /\ ApiAddRoute(m, t)
    \/ \E r \in ApiRequests : pc = "build" /\ HandleRequest(r) /\ UNCHANGED appVars
    \/ HandlerHandle(TRUE)
    \/ Return
    \/ \E ok \in BOOLEAN : pc = "done" /\ ApiHandleRequest(inreq, ok)

SpecApi == Init /\ [][NextApi]_vars

NextAsset ==
    \/ \E path \in AssetPaths : ServeAsset(path)
    \/ \E path \in AssetPaths : AssetHandle(path)
    \/ \E path \in AssetPaths : \E content \in {"v1", "v2"} : FileWrite(path, content)

SpecAsset == Init /\ [][NextAsset]_vars

InitApp == AppNew /\ RouterNew /\ CallIdle /\ MatchIdle /\ ExtIdle

\* a router of GET routes and middleware is built and moved into the App
\* (app.rs:24-27), the App is configured, then requests are handled
NextApp ==
    \/ app_pc = "build" /\ \E t \in RouteTemplates : Get(t)
    \/ app_pc = "build" /\ UseMiddleware
    \/ \E prefix \in {StaticLiteral, PrefixAssets, PrefixA} : AppStaticFiles(<<"pub">>, prefix)
    \/ AppErrorHandler("custom")
    \/ \E r \in AppRequests : AppHandle(r)
    \/ MiddlewareForward
    \/ MiddlewareShortCircuit
    \/ MiddlewareFail
    \/ HandlerHandle(TRUE)
    \/ \E e \in HandlerErrors : HandlerFails(e)
    \/ MiddlewareReturn
    \/ Return
    \/ AppRouterReturns

SpecApp == InitApp /\ [][NextApp]_vars

(* ====================== properties of the Router ====================== *)
\* the routes with the request's method whose regex matches its path
MatchingRoutes ==
    {i \in 1 .. Len(routes) :
        /\ routes[i].method = inreq.method
        /\ RegexCaptures(routes[i].regex.v, inreq.path).some}

SetMin(S) == CHOOSE n \in S : \A m \in S : n <= m

Range(f) == {f[x] : x \in DOMAIN f}

\* M1-in .. Mk-in
InEvents(k) == [j \in 1 .. k |-> InEvent(middleware[j])]

\* Mk-out .. M1-out, each seeing res
OutEvents(k, res) == [j \in 1 .. k |-> OutEvent(middleware[k + 1 - j], res)]

\* C1: when a route matched and the outcome is the route handler's (no
\* middleware short-circuited or failed), the trace of the finished call is
\* M1-in, ..., Mn-in, H, Mn-out, ..., M1-out, each exactly once.
C1_OnionOrder ==
    (pc = "done" /\ selected # 0 /\ result.v.v.by = "H") =>
        trace = InEvents(Len(middleware))
                \o <<HandlerEvent(routes[selected].handler.id)>>
                \o OutEvents(Len(middleware), result.v)

C1_Witness ==
    /\ pc = "done" /\ selected # 0
    /\ Len(middleware) >= 2
    /\ result.v.v.by = "H"
    /\ Len(trace) = 2 * Len(middleware) + 1

\* C2: when Mk returns a response without invoking next, the trace of the
\* finished call is M1-in, ..., Mk-in, Mk-1-out, ..., M1-out: no inner
\* middleware and no route handler ran, and every outer middleware saw Mk's
\* response, innermost first.
C2_ShortCircuit ==
    \A k \in 1 .. Len(middleware) :
        (/\ pc = "done" /\ selected # 0
         /\ result.v.ok /\ result.v.v.by = "M" /\ result.v.v.id = middleware[k]) =>
            trace = InEvents(k) \o OutEvents(k - 1, Ok([by |-> "M", id |-> middleware[k]]))

C2_Witness ==
    /\ pc = "done" /\ selected # 0
    /\ Len(middleware) >= 2
    /\ result.v.ok /\ result.v.v.by = "M" /\ result.v.v.id = middleware[2]
    /\ Len(trace) = 3

\* C3: handle_request selects the lowest-indexed route whose method equals
\* the request's and whose pattern matches its path; only that route's
\* handler ever runs; with GET /a/:x registered before /a/f, GET /a/f runs
\* the first with x = "f".
C3_FirstMatchWins ==
    pc # "build" =>
        /\ selected = (IF MatchingRoutes = {} THEN 0 ELSE SetMin(MatchingRoutes))
        /\ \A e \in Range(trace) : e.who = "H" => e.id = routes[selected].handler.id
        /\ (cur.some /\ cur.v.type = "fn") => cur.v.id = routes[selected].handler.id
        /\ (/\ Len(routes) >= 2
            /\ routes[1].method = "GET" /\ routes[1].path = TplAX
            /\ routes[2].method = "GET" /\ routes[2].path = TplAF
            /\ inreq.method = "GET" /\ inreq.path = PathAF) =>
               (selected = 1 /\ req.params[<<"x">>] = <<"f">>)

C3_Witness ==
    /\ pc = "done"
    /\ Len(routes) >= 2
    /\ routes[1].method = "GET" /\ routes[1].path = TplAX
    /\ routes[2].method = "GET" /\ routes[2].path = TplAF
    /\ inreq.method = "GET" /\ inreq.path = PathAF
    /\ HandlerEvent(1) \in Range(trace)

\* C4: when no route has both the request's method and a matching pattern,
\* handle_request ends with the NotFound error naming the request path, and
\* no middleware or handler runs; every registered route has a compiled
\* regex (no panic).
C4_NotFound ==
    /\ \A i \in 1 .. Len(routes) : routes[i].regex.some
    /\ (pc # "build" /\ MatchingRoutes = {}) =>
           /\ pc = "done"
           /\ result.some /\ ~result.v.ok
           /\ result.v.v.kind = "NotFound"
           /\ SubSeq(result.v.v.msg, 2, Len(result.v.v.msg)) = inreq.path
           /\ trace = <<>> /\ cur = None /\ stack = <<>>

\* the path matches a route, but only under another method
C4_Witness ==
    /\ pc = "done"
    /\ MatchingRoutes = {}
    /\ \E i \in 1 .. Len(routes) :
          /\ routes[i].method # inreq.method
          /\ RegexCaptures(routes[i].regex.v, inreq.path).some
    /\ result.v.v.kind = "NotFound"

\* the parameters the selected route extracts from the request path
Extracted == RouteMatches(routes[selected], inreq.method, inreq.path).v

\* C5: the parameter map handed to the chain is the request's own map
\* merged with the extracted parameters: extracted values win, entries
\* under other names are kept.
C5_ParamsMerged ==
    (pc # "build" /\ selected # 0) =>
        /\ \A n \in DOMAIN Extracted :
              n \in DOMAIN req.params /\ req.params[n] = Extracted[n]
        /\ \A n \in DOMAIN inreq.params \ DOMAIN Extracted :
              n \in DOMAIN req.params /\ req.params[n] = inreq.params[n]

(* ================== properties of Route::matches ====================== *)
\* the state after route.matches(GET, match_path) returned Some
Matched == route.some /\ match_method = "GET" /\ params.some

Tried == route.some /\ match_method = "GET"

IsLiteral(t) == \A i \in 1 .. Len(t) : t[i] \notin {":", "*"}

IsPrefix(l, q) == Len(l) <= Len(q) /\ SubSeq(q, 1, Len(l)) = l

\* the capturing markers of a template, in order: one group each
Marks(t) == SelectSeq(t, LAMBDA ch : ch \in {":", "*"})

\* the regex group of the j-th ':' of the template
OwnGroup(t, j) ==
    CHOOSE g \in 1 .. Len(Marks(t)) :
        /\ Marks(t)[g] = ":"
        /\ Cardinality({h \in 1 .. g : Marks(t)[h] = ":"}) = j

\* what the groups of the route's regex captured in match_path
Captured == RegexCaptures(route.v.regex.v, match_path).v

NameOccurrences(name) ==
    {j \in 1 .. Len(route.v.param_names) : route.v.param_names[j] = name}

\* C6: after a match, every parameter (named once in the template) is bound
\* to the text its own ':name' captured, also with a '*' before it, and the
\* map holds the parameter names only.
C6_OwnSegment ==
    Matched =>
        /\ DOMAIN params.v = Range(route.v.param_names)
        /\ \A j \in 1 .. Len(route.v.param_names) :
              Cardinality(NameOccurrences(route.v.param_names[j])) = 1 =>
                  params.v[route.v.param_names[j]] = Captured[OwnGroup(route.v.path, j)]

\* the templates  literal ++ ":" ++ name
IsLiteralThenParam(t) ==
    \E i \in 1 .. Len(t) :
        /\ t[i] = ":"
        /\ IsLiteral(SubSeq(t, 1, i - 1))
        /\ \A h \in i + 1 .. Len(t) : IsParamNameChar(t[h])

ColonAt(t) == CHOOSE i \in 1 .. Len(t) : t[i] = ":"

\* C7: a ':name' captures a non-empty text without '/'; in a template
\* without wildcard and with distinct names it is bound to its name; a
\* template  literal:name  matches exactly the paths  literal ++ segment
\* with segment non-empty and free of '/', binding name to segment;
\* /users/:id matches /users/42 with {id: 42}, not /users/42/extra, not
\* /users/.
C7_NamedSegment ==
    /\ Matched =>
          /\ \A j \in 1 .. Len(route.v.param_names) :
                LET cap == Captured[OwnGroup(route.v.path, j)] IN
                cap # <<>> /\ \A h \in 1 .. Len(cap) : cap[h] # "/"
          /\ (/\ \A h \in 1 .. Len(route.v.path) : route.v.path[h] # "*"
              /\ \A j \in 1 .. Len(route.v.param_names) :
                    NameOccurrences(route.v.param_names[j]) = {j}) =>
                 params.v = [n \in Range(route.v.param_names) |->
                                Captured[SetMin(NameOccurrences(n))]]
    /\ (Tried /\ IsLiteralThenParam(route.v.path)) =>
          LET t == route.v.path
              i == ColonAt(t)
              lit == SubSeq(t, 1, i - 1)
              seg == SubSeq(match_path, i, Len(match_path))
          IN /\ params.some <=>
                   /\ IsPrefix(lit, match_path)
                   /\ seg # <<>>
                   /\ \A h \in 1 .. Len(seg) : seg[h] # "/"
             /\ params.some => params.v = [n \in {SubSeq(t, i + 1, Len(t))} |-> seg]
    /\ (Tried /\ route.v.path = TplUsersId) =>
          /\ match_path = PathUsers42 =>
                params = Some([n \in {<<"i", "d">>} |-> <<"4", "2">>])
          /\ match_path \in {PathUsers42Extra, PathUsersSlash} => params = None

C7_Witness ==
    /\ Matched
    /\ route.v.path = TplUsersId
    /\ match_path = PathUsers42
    /\ params.v[<<"i", "d">>] = <<"4", "2">>

\* C8: a template  literal ++ "*"  matches exactly the paths that begin
\* with the literal, the wildcard capturing the whole remainder, '/'
\* included; /files/* captures a/b/c.txt from /files/a/b/c.txt.
C8_FinalWildcard ==
    /\ (/\ Tried
        /\ route.v.path # <<>>
        /\ route.v.path[Len(route.v.path)] = "*"
        /\ IsLiteral(SubSeq(route.v.path, 1, Len(route.v.path) - 1))) =>
          LET lit == SubSeq(route.v.path, 1, Len(route.v.path) - 1) IN
          /\ params.some <=> IsPrefix(lit, match_path)
          /\ params.some =>
                /\ Captured = <<SubSeq(match_path, Len(lit) + 1, Len(match_path))>>
                /\ params.v = EmptyMap
    /\ (Tried /\ route.v.path = TplFilesStar /\ match_path = PathFilesABC) =>
          /\ params.some
          /\ Captured = <<<<"a", "/", "b", "/", "c", ".", "t", "x", "t">>>>

C8_Witness ==
    /\ Matched
    /\ route.v.path = TplFilesStar
    /\ match_path = PathFilesABC

\* C9: a template of literal characters only (regex-special ones and empty
\* segments included) is matched by the path equal to it and by no other.
C9_LiteralExact ==
    (Tried /\ IsLiteral(route.v.path)) => (params.some <=> match_path = route.v.path)

C9_Witness ==
    /\ Matched
    /\ route.v.path = TplSpecials
    /\ match_path = TplSpecials

\* C10: for a template naming a parameter more than once (and holding no
\* wildcard), registration fails or the first occurrence wins: after a
\* match the name is bound to what its first occurrence captured.
C10_FirstOccurrenceWins ==
    (route.some /\ \A h \in 1 .. Len(route.v.path) : route.v.path[h] # "*") =>
        \/ ~route.v.regex.some
        \/ Matched =>
              \A n \in Range(route.v.param_names) :
                  params.v[n] = Captured[SetMin(NameOccurrences(n))]

(* =================== properties of the RateLimiter ==================== *)
DigitValue(ch) == CHOOSE d \in 0 .. 9 : DigitChars[d + 1] = ch

\* the number a client reads from a decimal header value
RECURSIVE ParseU64(_)
ParseU64(str) ==
    IF Len(str) = 0 THEN 0
    ELSE 10 * ParseU64(SubSeq(str, 1, Len(str) - 1)) + DigitValue(str[Len(str)])

\* the position of served[i] among the calls of its key in its window
OrdinalInWindow(i) ==
    Cardinality({j \in 1 .. i : /\ served[j].key = served[i].key
                                /\ served[j].last_request = served[i].last_request})

\* served[i] arrived less than window_seconds after its window started
InsideWindow(i) ==
    served[i].now - served[i].last_request < limiter.v.window_seconds * TicksPerSecond

IsRateLimitAnswer(res) ==
    /\ res.ok
    /\ res.v.status = TOO_MANY_REQUESTS
    /\ "Retry-After" \in DOMAIN res.v.headers
    /\ ParseU64(res.v.headers["Retry-After"]) = limiter.v.window_seconds

\* C11: for RateLimiter::new(m, w) and one key, of the calls arriving inside
\* one window the first m are handed to next, and each later one is answered
\* 429 with Retry-After = w while next is not invoked.
C11_WindowLimit ==
    \A i \in 1 .. Len(served) :
        LET t == tasks[served[i].task]
            within == ~U32Gt(U32Of(OrdinalInWindow(i)), limiter.v.max_requests)
        IN  InsideWindow(i) =>
              /\ within => /\ ~served[i].exceeded
                           /\ t.pc \in {"next", "done"} => t.next_calls = 1
              /\ ~within => /\ served[i].exceeded
                            /\ t.next_calls = 0
                            /\ t.pc = "done" => IsRateLimitAnswer(t.response.v)

C11_Witness ==
    \E i \in 1 .. Len(served) :
        /\ InsideWindow(i)
        /\ limiter.v.max_requests = U32Of(1)
        /\ OrdinalInWindow(i) = 2
        /\ tasks[served[i].task].pc = "done"
        /\ IsRateLimitAnswer(tasks[served[i].task].response.v)
        /\ tasks[served[1].task].next_calls = 1

\* C12: with m >= 1, a call of key k arriving w seconds or more after k's
\* window started is forwarded and leaves k with count 1 and the window
\* started at the call's time.
C12_ResetAfterWindow ==
    \A i \in 1 .. Len(served) :
        ( /\ U32Gt(limiter.v.max_requests, U32Of(0))
          /\ served[i].before.some
          /\ served[i].now - served[i].before.v[2]
                >= limiter.v.window_seconds * TicksPerSecond )
        => /\ ~served[i].exceeded
           /\ served[i].count = U32Of(1)
           /\ served[i].last_request = served[i].now

\* the key as the sentence reads: whichever header is present, as it is
KeyByPresence(headers) ==
    IF "x-forwarded-for" \in DOMAIN headers THEN headers["x-forwarded-for"]
    ELSE IF "x-real-ip" \in DOMAIN headers THEN headers["x-real-ip"]
    ELSE Unknown

\* the key when a header that is no ASCII text counts as no key at all
KeyByText(headers) ==
    LET chosen == IF "x-forwarded-for" \in DOMAIN headers THEN headers["x-forwarded-for"]
                  ELSE IF "x-real-ip" \in DOMAIN headers THEN headers["x-real-ip"]
                  ELSE Unknown
    IN  IF \A n \in 1 .. Len(chosen) : IsVisibleAscii(chosen[n]) THEN chosen ELSE Unknown

\* a step changes the entry of no key but that of the call in the locked section
OwnEntryOnly ==
    \A k \in DOMAIN requests \cup DOMAIN requests' :
        (MapGet(requests, k) # MapGet(requests', k)) =>
            \E t \in 1 .. Len(tasks) :
                /\ tasks[t].pc = "lock" /\ tasks'[t].pc = "decided"
                /\ tasks[t].client_ip = k

Called(type) == mw.some /\ mw.v.type = type /\ mw_pc # "idle"

\* the call returned a response of this status and never invoked next
ShortCircuited(status) ==
    /\ mw_pc = "done" /\ next_reqs = <<>>
    /\ mw_result.v.ok /\ mw_result.v.v.status = status

\* the call invoked next once, with the request it received
ForwardedUnchanged == next_reqs = <<mw_in.v>>

\* C14 as stated: under every AuthGuard configuration a request without
\* user_id is answered 401 and next is never invoked.
C14_Unauthorized ==
    (Called("AuthGuard") /\ ~mw_in.v.user_id.some) => ShortCircuited(UNAUTHORIZED)

\* C14: a request without user_id never reaches next; it is answered 401 when
\* no redirect URL is configured and 302 with Location set to the configured
\* URL when one is.
C14_UnauthorizedOrRedirect ==
    (Called("AuthGuard") /\ ~mw_in.v.user_id.some) =>
        IF mw.v.redirect_url.some
        THEN /\ ShortCircuited(FOUND)
             /\ MapGet(mw_result.v.v.headers, "Location") = mw.v.redirect_url
        ELSE ShortCircuited(UNAUTHORIZED)

C14_Witness ==
    /\ Called("AuthGuard") /\ ~mw_in.v.user_id.some
    /\ mw.v.redirect_url.some /\ mw.v.required_roles # <<>>
    /\ ShortCircuited(FOUND)

\* the user's roles and the required roles have no element in common
NoCommonRole == Range(mw.v.required_roles) \cap Range(mw_in.v.user_roles) = {}

\* next was invoked once with the request as received, and what it returned
\* is what the call returns
ForwardedVerbatim ==
    /\ ForwardedUnchanged
    /\ mw_pc = "done" => next_ret.some /\ mw_result = next_ret

\* C15 as stated: with user_id present, AuthGuard answers 403 without next
\* whenever the roles have no element in common with the required roles, and
\* otherwise forwards verbatim.
C15_ForbiddenWhenDisjoint ==
    (Called("AuthGuard") /\ mw_in.v.user_id.some) =>
        IF NoCommonRole THEN ShortCircuited(FORBIDDEN) ELSE ForwardedVerbatim

\* C15: with user_id present, AuthGuard answers 403 without next whenever
\* some role is required and the user has none of the required roles, and
\* otherwise (no role required, or a common role) forwards verbatim.
C15_ForbiddenWhenRequired ==
    (Called("AuthGuard") /\ mw_in.v.user_id.some) =>
        IF mw.v.required_roles # <<>> /\ NoCommonRole
        THEN ShortCircuited(FORBIDDEN)
        ELSE ForwardedVerbatim

C15_Witness ==
    /\ Called("AuthGuard") /\ mw_in.v.user_id.some
    /\ mw.v.required_roles = <<>> /\ mw_in.v.user_roles # <<>>
    /\ mw_pc = "done" /\ ForwardedVerbatim

\* res is `inner` with Access-Control-Allow-Origin set to origin, no more
SameButOrigin(res, inner, origin) ==
    /\ res.status = inner.status /\ res.body = inner.body
    /\ DOMAIN res.headers = DOMAIN inner.headers \cup {"Access-Control-Allow-Origin"}
    /\ res.headers["Access-Control-Allow-Origin"] = origin
    /\ \A n \in DOMAIN inner.headers :
          n # "Access-Control-Allow-Origin" => res.headers[n] = inner.headers[n]

\* C16: on OPTIONS Cors answers 200 with an empty body and the three allow
\* headers without invoking next; on another method it invokes next once and
\* returns next's response with Access-Control-Allow-Origin set to the
\* configured origin and nothing else changed.
C16_Cors ==
    Called("Cors") =>
        IF mw_in.v.method = "OPTIONS"
        THEN /\ ShortCircuited(OK)
             /\ mw_result.v.v.body = ""
             /\ MapGet(mw_result.v.v.headers, "Access-Control-Allow-Origin")
                    = Some(mw.v.allow_origin)
             /\ MapGet(mw_result.v.v.headers, "Access-Control-Allow-Methods")
                    = Some(mw.v.allow_methods)
             /\ MapGet(mw_result.v.v.headers, "Access-Control-Allow-Headers")
                    = Some(mw.v.allow_headers)
        ELSE /\ Len(next_reqs) = 1
             /\ (mw_pc = "done" /\ next_ret.v.ok) =>
                    /\ mw_result.v.ok
                    /\ SameButOrigin(mw_result.v.v, next_ret.v.v, mw.v.allow_origin)

C16_Witness ==
    /\ Called("Cors") /\ mw_in.v.method = "GET" /\ mw_pc = "done"
    /\ mw.v.allow_origin = "https://a.example"
    /\ next_ret.v.ok
    /\ MapGet(next_ret.v.v.headers, "Access-Control-Allow-Origin") = Some("x")
    /\ MapGet(mw_result.v.v.headers, "Access-Control-Allow-Origin")
           = Some("https://a.example")

\* C17: every call of Logger that has returned, with a response or with an
\* error, has printed one entry naming the request's method and path.
C17_OneEntryPerRequest ==
    (Called("Logger") /\ mw_pc = "done") =>
        /\ Len(stdout) = 1
        /\ stdout[1][1] = mw_in.v.method /\ stdout[1][2] = mw_in.v.uri

\* C18: Logger invokes next once with the request as received and returns
\* what next returned, response or error, as it is.
C18_LoggerTransparent ==
    Called("Logger") => ForwardedVerbatim

C18_Witness ==
    /\ Called("Logger") /\ mw_pc = "done"
    /\ ~next_ret.v.ok /\ mw_result = next_ret /\ ForwardedUnchanged

(* ====================== properties of App::handle ===================== *)
\* C19: with static_files(dir, prefix) configured, whatever the prefix, a
\* request goes to the static handler, past the Router and its middleware,
\* exactly when its path starts with the configured prefix, and to the
\* Router otherwise.
C19_StaticByPrefix ==
    (app.static_handler.some /\ app_in.some) =>
        /\ app_via = "static" <=> StartsWith(app_in.v.path, app.static_handler.v.prefix)
        /\ app_via = "router" <=> ~StartsWith(app_in.v.path, app.static_handler.v.prefix)

\* the AppError the sentence derives from the router's error e
DerivedFrom(err, e) ==
    IF IsAppError(e) THEN err.kind = e.kind /\ err.msg = e.msg ELSE err.kind = "Internal"

\* C20: when the Router returned Err(e), the error handler was invoked once,
\* with the AppError derived from e, and its result is what App::handle
\* returns; when the Router returned Ok(r), the handler was not invoked and
\* Ok(r) is returned.
C20_ErrorHandler ==
    (app_pc = "done" /\ app_via = "router") =>
        IF result.v.ok
        THEN eh_calls = <<>> /\ app_result = result
        ELSE /\ Len(eh_calls) = 1
             /\ DerivedFrom(eh_calls[1], result.v.v)
             /\ eh_ret.some /\ app_result = eh_ret

C20_Witness ==
    /\ app_pc = "done" /\ app_via = "router"
    /\ ~result.v.ok /\ result.v.v.kind = "BadRequest"
    /\ eh_calls = <<result.v.v>>
    /\ app.error_handler = "custom" /\ ~app_result.v.ok

\* C21: App::handle returns Err only when the installed error handler was
\* invoked for this request and itself returned Err, whichever of the
\* router, a middleware, a route handler and the static handler failed.
C21_ErrOnlyFromHandler ==
    (app_pc = "done" /\ ~app_result.v.ok) =>
        /\ Len(eh_calls) = 1
        /\ eh_ret.some /\ ~eh_ret.v.ok

\* the status the sentence gives to the router's error e
StatusByKind(e) ==
    IF ~IsAppError(e) THEN INTERNAL_SERVER_ERROR
    ELSE CASE e.kind = "NotFound" -> NOT_FOUND
           [] e.kind = "BadRequest" -> BAD_REQUEST
           [] e.kind = "Unauthorized" -> UNAUTHORIZED
           [] e.kind = "Forbidden" -> FORBIDDEN
           [] OTHER -> INTERNAL_SERVER_ERROR

\* C23: with the default error handler, a request handed to the Router that
\* matches no route is answered 404, and an error of the chain is answered
\* 404, 400, 401 or 403 for NotFound, BadRequest, Unauthorized or Forbidden
\* and 500 for Internal and for an error that is no AppError.
C23_DefaultStatuses ==
    (app_pc = "done" /\ app_via = "router" /\ app.error_handler = "default") =>
        /\ selected = 0 => app_result.v.ok /\ app_result.v.v.status = NOT_FOUND
        /\ ~result.v.ok =>
              app_result.v.ok /\ app_result.v.v.status = StatusByKind(result.v.v)

C23_Witness ==
    /\ app_pc = "done" /\ app_via = "router" /\ app.error_handler = "default"
    /\ selected = 0 /\ routes # <<>>
    /\ app_result.v.ok /\ app_result.v.v.status = NOT_FOUND

(* ================= frame properties of the Router ===================== *)
\* l' is l, or l with one entry appended
SameOrAppended(l, after) ==
    /\ IsPrefix(l, after)
    /\ Len(after) <= Len(l) + 1

C30_OnlyParamsChanged ==
    (pc \in {"chain", "done"} /\ selected # 0) =>
        /\ \A f \in DOMAIN inreq \ {"params"} : req[f] = inreq[f]
        /\ req.params = RouteMatches(routes[selected], inreq.method, inreq.path).v

C30_Witness ==
    /\ pc = "chain" /\ selected # 0
    /\ Len(trace) = 1 /\ trace[1].ev = "in"
    /\ inreq.params # EmptyMap
    /\ req.params # inreq.params /\ req.params # EmptyMap
    /\ req.headers = inreq.headers /\ req.user_id = inreq.user_id

(* ======================= where errors come from ======================= *)
HandlerEvents == { k \in 1 .. Len(trace) : trace[k].who = "H" }

OutIndices == { k \in 1 .. Len(trace) : trace[k].ev = "out" }

\* the last middleware entered
LastEntered ==
    LET ins == { k \in 1 .. Len(trace) : trace[k].ev = "in" } IN
    trace[CHOOSE k \in ins : \A j \in ins : j <= k].id

\* the error of the link of the chain that produced the outcome: the handler
\* if it ran, otherwise the middleware that did not forward
ErrorAtOrigin ==
    IF HandlerEvents # {}
    THEN [kind |-> "Internal", by |-> "H", id |-> routes[selected].handler.id]
    ELSE [kind |-> "Internal", by |-> "M", id |-> LastEntered]

RouterKeepsErrors ==
    pc = "done" =>
        /\ selected = 0 <=> (\A i \in 1 .. Len(routes) :
                                 ~RouteMatches(routes[i], inreq.method, inreq.path).some)
        /\ selected = 0 <=> ~result.v.ok /\ result.v.v.kind = "NotFound"
        /\ selected = 0 => result.v = Err(NotFound(inreq.path)) /\ trace = <<>>
        /\ (selected # 0 /\ ~result.v.ok) =>
               /\ result.v.v = ErrorAtOrigin
               /\ \A k \in OutIndices : trace[k].saw = result.v
        /\ Cardinality(HandlerEvents) <= 1
        /\ \A k \in HandlerEvents : trace[k].id = routes[selected].handler.id

BuiltinKeepsErrors ==
    (mw_pc = "done" /\ next_ret.some /\ ~next_ret.v.ok) =>
        /\ mw_result.v = next_ret.v
        /\ Len(next_reqs) = 1

RateLimiterKeepsErrors ==
    \A t \in 1 .. Len(tasks) :
        (tasks[t].pc = "done" /\ tasks[t].next_ret.some /\ ~tasks[t].next_ret.v.ok) =>
            /\ tasks[t].response = tasks[t].next_ret
            /\ tasks[t].next_calls = 1

\* C22: handle_request answers Err(NotFound) exactly when no route matches;
\* when a route matches, an error of its handler or of a middleware is the
\* outcome of the call as it was produced, every middleware on the way out
\* having seen it, and no handler of another route runs; Logger, Cors,
\* AuthGuard and RateLimiter return the error of next as they got it, having
\* called next once.
C22_ErrorsPassThrough ==
    /\ RouterKeepsErrors
    /\ BuiltinKeepsErrors
    /\ RateLimiterKeepsErrors

C22_Witness ==
    /\ pc = "done" /\ selected = 1 /\ Len(routes) = 2
    /\ RouteMatches(routes[2], inreq.method, inreq.path).some
    /\ Len(middleware) = 2 /\ Cardinality(OutIndices) = 2
    /\ result.v = Err([kind |-> "Internal", by |-> "H", id |-> 1])

(* ========================= repeated dispatch ========================== *)
\* C24: with the Router unchanged and middleware and handlers that are
\* stateless and deterministic, a GET request dispatched again selects the
\* route it selected before, extracts the parameters it extracted before and
\* ends with the outcome it ended with before, the same events in between,
\* whatever was dispatched since.
C24_SameOutcomeAgain ==
    (pc = "done" /\ first.some /\ inreq = first.v.request) =>
        /\ selected = first.v.selected
        /\ req.params = first.v.params
        /\ result = first.v.result
        /\ trace = first.v.trace

C24_Witness ==
    /\ pc = "done" /\ first.some /\ first.v.others
    /\ inreq = first.v.request
    /\ selected = 1 /\ Len(routes) = 2 /\ Len(middleware) = 2
    /\ req.params # EmptyMap
    /\ ~result.v.ok /\ result = first.v.result

(* ================ RateLimiter under concurrent calls ================== *)
\* the calls of client `key`
CallsOf(key) == { t \in 1 .. Len(tasks) : tasks[t].client_ip = key }

PastSection(t) == tasks[t].pc \in {"decided", "next", "done", "cancelled"}

\* no call of `key` found the window passed
SingleWindow(key) ==
    \A i \in 1 .. Len(served) :
        (served[i].key = key /\ served[i].before.some) =>
            ~WindowPassed(served[i].now, served[i].before.v[2], limiter.v.window_seconds)

Min(a, b) == IF a <= b THEN a ELSE b

\* C25: once the concurrent calls of one client, all within one window, have
\* left the locked section, the client's count is the number of those calls
\* and the calls not refused number min(calls, max_requests), in whatever
\* order the calls took their steps.
C25_NoLostUpdate ==
    \A key \in {Addr1, Addr2} :
        (CallsOf(key) # {} /\ SingleWindow(key) /\ \A t \in CallsOf(key) : PastSection(t)) =>
            /\ requests[key][1] = U32Of(Cardinality(CallsOf(key)))
            /\ Cardinality({ t \in CallsOf(key) : ~tasks[t].exceeded })
                   = Min(Cardinality(CallsOf(key)), limiter.v.max_requests[2])

C25_Witness ==
    /\ Cardinality(CallsOf(Addr1)) = 2 /\ SingleWindow(Addr1)
    /\ \A t \in CallsOf(Addr1) : PastSection(t)
    /\ served[1].task = 2 /\ tasks[1].now < tasks[2].now
    /\ limiter.v.max_requests = U32Of(1)
    /\ tasks[1].exceeded /\ ~tasks[2].exceeded
    /\ requests[Addr1][1] = U32Of(2)

InSection(t) == tasks[t].pc \in {"held", "entry", "counted"}

\* an instant a call of `key` read from the clock
ValidWindowStart(key, instant) ==
    /\ instant <= clock
    /\ \E t \in CallsOf(key) : tasks[t].now = instant

\* C26: a call holds the mutex only inside the synchronous section, never
\* while it awaits next, after it was dropped there or after it returned;
\* whenever the mutex is free, whether or not calls were dropped at the
\* await, every entry of the table has a count of at least 1 and a window
\* start that a call of its key read from the clock.
C26_GuardNeverAcrossAwait ==
    /\ \A t \in 1 .. Len(tasks) : mutex = Some(t) <=> InSection(t)
    /\ mutex = None =>
           \A key \in DOMAIN requests :
               /\ U32Gt(requests[key][1], U32Of(0))
               /\ ValidWindowStart(key, requests[key][2])

C26_Witness ==
    /\ Len(tasks) = 2 /\ tasks[1].pc = "cancelled"
    /\ tasks[2].client_ip = tasks[1].client_ip
    /\ tasks[2].pc = "done" /\ tasks[2].exceeded /\ served[2].task = 2
    /\ mutex = None
    /\ requests[tasks[1].client_ip][1] = U32Of(2)

(* ================== concurrent requests on one Router ================= *)
\* the request call c works on is the one it received, with the parameters
\* its own route extracted from its own path
OwnRequest(c) ==
    (c.pc \in {"chain", "done"} /\ c.selected # 0) =>
        c.req = [c.inreq EXCEPT !.params =
                     RouteMatches(routes[c.selected], c.inreq.method, c.inreq.path).v]

\* the events of call c so far: the middleware entered in registration
\* order, the handler of the call's route if all forwarded, then the
\* forwarding middleware left in reverse order, each seeing the call's result
OnionOrder(c) ==
    \E j \in 0 .. Len(middleware) :
    \E h \in {<<>>, <<HandlerEvent(routes[c.selected].handler.id)>>} :
        /\ h # <<>> => j = Len(middleware)
        /\ \/ c.trace = InEvents(j) \o h
           \/ /\ c.result.some
              /\ \E n \in 1 .. (IF h # <<>> THEN j ELSE j - 1) :
                     c.trace = InEvents(j) \o h \o
                         SubSeq(OutEvents(IF h # <<>> THEN j ELSE j - 1, c.result.v), 1, n)

\* C27: with two calls of handle_request on the same Router taking their
\* steps in any order, the events of each call are in the onion order of its
\* own chain, and each call works on its own request with the parameters
\* extracted from its own path.
C27_CallsIsolated ==
    \A c \in {Context, parked} :
        /\ OwnRequest(c)
        /\ c.selected # 0 => OnionOrder(c)
        /\ c.selected = 0 => c.trace = <<>>

C27_Witness ==
    /\ pc = "chain" /\ parked.pc = "chain"
    /\ selected = 1 /\ parked.selected = 1
    /\ inreq.path # parked.inreq.path
    /\ req.params # parked.req.params
    /\ Len(trace) = 4 /\ Len(parked.trace) = 2 /\ parked.stack = <<1, 2>>
    /\ stack = <<1>>

(* ============================ termination ============================= *)
Finished(t) == tasks[t].pc = "done" /\ tasks[t].response.some

\* an outcome, once given, is not replaced
OutcomeKept ==
    /\ \A t \in 1 .. Len(tasks) :
           tasks[t].response.some => tasks'[t].response = tasks[t].response
    /\ (pc = "chain" /\ result.some) => result' = result

\* C28: under fair scheduling, a request dispatched to the Router gets its
\* outcome, a response or an error, and every call of the RateLimiter, the
\* ones waiting for the mutex while another call holds it included, gets its
\* outcome; an outcome is given once.
C28_EveryRequestAnswered ==
    /\ (pc = "chain") ~> (pc = "done" /\ result.some)
    /\ \A t \in 1 .. MaxArrivals : (Len(tasks) >= t) ~> (Len(tasks) >= t /\ Finished(t))
    /\ [][OutcomeKept]_vars

C28_Witness ==
    /\ Len(tasks) = 2
    /\ mutex = Some(2) /\ tasks[1].pc = "lock"
    /\ tasks[2].pc = "counted"

(* ===================== preflight through the Router =================== *)
\* some route was registered for a template that `path` matches
PathRegistered(path) ==
    \E i \in 1 .. Len(routes) : RouteMatches(routes[i], routes[i].method, path).some

\* C31: an OPTIONS request for a path that has a registered route, sent to an
\* App whose Router has a middleware registered (Cors, the outermost), is
\* answered by that middleware: the middleware is entered and the answer is
\* Ok and its own.
C31_PreflightAnswered ==
    (/\ app_pc = "done" /\ app_via = "router"
     /\ app_in.v.method = "OPTIONS"
     /\ middleware # <<>>
     /\ PathRegistered(app_in.v.path)) =>
        /\ trace # <<>> /\ trace[1] = InEvent(middleware[1])
        /\ app_result.v.ok
        /\ app_result.v.v = [by |-> "M", id |-> middleware[1]]

(* ====================== requests that match no route ================== *)
\* C32: a request that matches no route is answered NotFound at once: the
\* chain is never built, no middleware is entered and none is waiting, so
\* nothing a middleware keeps (rate table, counters, sessions, log) is
\* touched on its behalf.
C32_NoMatchNoMiddleware ==
    (pc \in {"chain", "done"} /\ selected = 0) =>
        /\ pc = "done"
        /\ trace = <<>> /\ stack = <<>> /\ cur = None
        /\ result = Some(Err(NotFound(inreq.path)))

C32_Witness ==
    /\ pc = "done" /\ selected = 0
    /\ Len(middleware) = 2 /\ Len(routes) = 2
    /\ inreq.path = PathAB /\ inreq.method = "GET"
    /\ result = Some(Err(NotFound(PathAB)))

(* ======================= sessions across requests ===================== *)
\* C33: when a call of SessionMiddleware has returned Ok, the session it
\* saved under the request's session id holds the data the route handler
\* left in the request's session.
C33_HandlerWritesSaved ==
    (sm_pc = "done" /\ sm_result.v.ok) =>
        /\ sm_req.id \in DOMAIN sessions
        /\ sessions[sm_req.id].data = sm_req.data

(* ============================== metrics =============================== *)
Completed == { t \in 1 .. Len(mt_calls) : mt_calls[t].pc = "done" }

\* the calls whose inner chain returned an error
Failed == { t \in 1 .. Len(mt_calls) : mt_calls[t].result.some /\ ~mt_calls[t].result.v.ok }

\* C34: in every state, error_counter <= length of request_duration <=
\* request_counter; when every call has completed, request_counter equals
\* the length of request_duration and error_counter the number of calls
\* whose inner chain returned an error.
C34_CountersOrdered ==
    /\ error_counter <= Len(request_duration)
    /\ Len(request_duration) <= request_counter
    /\ request_counter = Len(mt_calls)
    /\ Cardinality(Completed) = Len(mt_calls) =>
           /\ request_counter = Len(request_duration)
           /\ error_counter = Cardinality(Failed)

C34_Witness ==
    /\ Len(mt_calls) = 2 /\ Cardinality(Completed) = 2
    /\ Cardinality(Failed) = 1 /\ error_counter = 1
    /\ request_duration = <<1, 0>>

\* C35: in every report of export, http_errors_total does not exceed
\* http_requests_total.
C35_ReportConsistent ==
    \A i \in 1 .. Len(reports) :
        reports[i].http_errors_total <= reports[i].http_requests_total

(* ===================== the count at the top of u32 ==================== *)
\* served[i] found the window of its key still open
SameWindow(i) ==
    /\ served[i].before.some
    /\ ~WindowPassed(served[i].now, served[i].before.v[2], limiter.v.window_seconds)

\* C36: a call that finds its key's window open leaves the count one above
\* what it found, never below; if a call of the key was refused, each later
\* call of the key in that window is refused too, and every call is either
\* refused or handed to next.
C36_CountNeverWraps ==
    /\ \A i \in 1 .. Len(served) :
           SameWindow(i) =>
               /\ U32Gt(served[i].count, served[i].before.v[1])
               /\ \A j \in 1 .. i - 1 :
                      (/\ served[j].key = served[i].key
                       /\ served[j].last_request = served[i].last_request
                       /\ served[j].exceeded) => served[i].exceeded
    /\ \A t \in 1 .. Len(tasks) : tasks[t].pc # "panicked"

(* ======================= the global configuration ===================== *)
\* what the cell holds after call i
CellAfter(i) ==
    IF i = Len(config_calls) THEN GLOBAL_CONFIG ELSE config_calls[i + 1].before

\* C37: once a call has filled the cell, every later get_config returns what
\* the cell holds and no later call changes it; an init_config(c) that finds
\* the cell empty fills it with c, so that the get_config calls after it
\* return c.
C37_WriteOnce ==
    \A i \in 1 .. Len(config_calls) :
        /\ CellAfter(i).some
        /\ config_calls[i].before.some => CellAfter(i) = config_calls[i].before
        /\ config_calls[i].op = "get_config" => config_calls[i].ret = CellAfter(i).v
        /\ (config_calls[i].op = "init_config" /\ ~config_calls[i].before.some) =>
               \A j \in i + 1 .. Len(config_calls) :
                   config_calls[j].op = "get_config" => config_calls[j].ret = config_calls[i].arg

C37_Witness ==
    /\ Len(config_calls) = 3
    /\ config_calls[1].op = "init_config" /\ config_calls[1].arg = [host |-> "10.0.0.1"]
    /\ config_calls[2].op = "init_config" /\ config_calls[2].arg = [host |-> "0.0.0.0"]
    /\ config_calls[3].op = "get_config" /\ config_calls[3].ret = [host |-> "10.0.0.1"]

\* C37 as stated: every init_config(c) followed by get_config() has the
\* get_config return c.
C37_InitThenGet ==
    \A i \in 1 .. Len(config_calls) - 1 :
        (config_calls[i].op = "init_config" /\ config_calls[i + 1].op = "get_config") =>
            config_calls[i + 1].ret = config_calls[i].arg

(* ===================== ApiRegistry and Router ========================= *)
\* the Router and the ApiRegistry hold the same (method, template) pairs, in
\* the same order
SamePairs ==
    /\ Len(api_routes) = Len(routes)
    /\ \A i \in 1 .. Len(routes) :
           api_routes[i].method = routes[i].method /\ api_routes[i].path = routes[i].path

\* C38: when both hold the same pairs and were given the same request, whose
\* params map was empty, they selected the same index (0: none) and the
\* request handed on carries the same params.
C38_SameSelection ==
    (/\ api_pc = "done" /\ pc \in {"chain", "done"}
     /\ api_in = inreq /\ inreq.params = EmptyMap
     /\ SamePairs) =>
        /\ api_selected = selected
        /\ api_response.some <=> selected # 0
        /\ api_req.params = req.params

C38_Witness ==
    /\ api_pc = "done" /\ pc = "done" /\ SamePairs
    /\ Len(routes) = 2 /\ routes[1].path = TplAX /\ routes[2].path = TplAF
    /\ routes[1].method = "POST" /\ routes[2].method = "GET"
    /\ api_in = inreq /\ inreq.params = EmptyMap /\ inreq.path = PathAF /\ inreq.method = "POST"
    /\ api_selected = 1 /\ api_req.params = [n \in {<<"x">>} |-> <<"f">>]

(* ========================= the asset cache ============================ *)
\* C39: when a call through Handler::handle read a path from its file and
\* cached it, every later call through Handler::handle for that path is
\* answered from the cache.
C39_SecondFromCache ==
    \A i \in 1 .. Len(asset_calls) : \A j \in i + 1 .. Len(asset_calls) :
        (/\ asset_calls[i].via = "handle" /\ asset_calls[i].inserted
         /\ asset_calls[j].via = "handle" /\ asset_calls[j].path = asset_calls[i].path) =>
            asset_calls[j].hit

====
